---- MODULE Spec2Model ----
(***************************************************************************)
(* Model of the HPP calculator core (hpp-calculator/utils/calculations.py). *)
(*                                                                         *)
(* Numbers.  The code computes on Python floats.  The model computes on    *)
(* exact decimals: every amount, quantity and percentage is an integer     *)
(* count of thousandths (1.5 is 1500, 40 % is 40000, 0.004 is 4).  A value *)
(* the code has passed through round(x, 2) is therefore a multiple of 10.  *)
(* round(x, 2) is modelled as rounding of the exact quotient to the        *)
(* nearest hundredth, ties to the even hundredth (Python's rule for a      *)
(* value that is exactly half way).  TLC integers are 32 bits wide, so the *)
(* products are formed in two halves (MulDivRound).                        *)
(*                                                                         *)
(* Text.  A name is a sequence of one-character strings, so that strip()   *)
(* is computed and not assumed.                                            *)
(***************************************************************************)
EXTENDS Integers, Sequences, FiniteSets, TLC

VARIABLES ingredients, output_units, target_margin_percent,
          actual_selling_price, operational_cost, other_cost, result,
          top_n, fn_args, batch_cost,
          session_state, button, errors_shown, calc_calls,
          db

\* the arguments of a call of the calculation core, and what it returned;
\* batch_cost is what calculate_total_batch_cost returned for the same list
core_vars == <<ingredients, output_units, target_margin_percent,
               actual_selling_price, operational_cost, other_cost, result,
               top_n, fn_args, batch_cost>>

\* the application: st.session_state, what st.button returned in the script
\* run that drew the page, the st.error messages on the page, and the number
\* of times the calculate action has called calculate_all
app_vars == <<session_state, button, errors_shown, calc_calls>>

\* db is the SQLite file: its tables, each a sequence of rows in rowid order
vars == <<core_vars, app_vars, db>>

-----------------------------------------------------------------------------
(* Bounds and input domains *)

MaxRows == 2

\* Python's None (actual_selling_price = None, calculation_result = None)
None == <<>>

Some(x) == <<x>>

Names == { <<>>, <<" ">>, <<"A", " ">> }

Quantities == { 0, 1500 }

Prices == { -1000, 333, 2000 }

\* a unit is text too: validate_ingredients strips it
Units == { <<"k", "g">> }

IngredientRows ==
    [name : Names, quantity : Quantities, unit : Units, price_per_unit : Prices]

RECURSIVE SeqsUpTo(_, _)
SeqsUpTo(S, n) ==
    IF n = 0 THEN { <<>> }
    ELSE LET shorter == SeqsUpTo(S, n - 1)
         IN  shorter \cup { Append(s, x) : s \in { t \in shorter : Len(t) = n - 1 }, x \in S }

OutputUnits == { -1, 0, 1, 3 }

TargetMargins == { 40000, 12344 }

ActualPrices == { None, Some(0), Some(134999), Some(135000), Some(140000) }

OperationalCosts == { 0, 4, 100000 }

OtherCosts == { 0, 4 }

-----------------------------------------------------------------------------
(* Arithmetic: round(x, 2) on exact decimals *)

\* nearest integer to n / d (d > 0), ties to the even integer
RoundDiv(n, d) ==
    LET q == n \div d
        r == n % d
    IN  IF 2 * r < d THEN q
        ELSE IF 2 * r > d THEN q + 1
        ELSE IF q % 2 = 0 THEN q ELSE q + 1

\* round(n / d, 2) where n / d is a count of thousandths
Round2(n, d) == 10 * RoundDiv(n, 10 * d)

\* nearest integer to a * b / (1000 * d1), ties to even, for a, b >= 0;
\* the product is never formed whole
MulDivRound(a, b, d1) ==
    LET P == a * (b \div 1000)
        Q == a * (b % 1000)
        M == 1000 * (P % d1) + Q
        q == (P \div d1) + (M \div (1000 * d1))
        r == M % (1000 * d1)
    IN  IF 2 * r < 1000 * d1 THEN q
        ELSE IF 2 * r > 1000 * d1 THEN q + 1
        ELSE IF q % 2 = 0 THEN q ELSE q + 1

-----------------------------------------------------------------------------
(* Text: str.strip() *)

IsSpace(c) == c \in { " ", "\t", "\n" }

RECURSIVE LStrip(_)
LStrip(s) ==
    IF s = <<>> THEN <<>>
    ELSE IF IsSpace(Head(s)) THEN LStrip(Tail(s)) ELSE s

RECURSIVE RStrip(_)
RStrip(s) ==
    IF s = <<>> THEN <<>>
    ELSE IF IsSpace(s[Len(s)]) THEN RStrip(SubSeq(s, 1, Len(s) - 1)) ELSE s

Strip(s) == RStrip(LStrip(s))

-----------------------------------------------------------------------------
(* calculations.py *)

\* the guard with "and" for "or"
calculate_line_cost_and(quantity, price_per_unit) ==
    IF quantity <= 0 /\ price_per_unit <= 0 THEN 0
    ELSE 10 * MulDivRound(quantity, price_per_unit, 10)

calculate_line_cost(quantity, price_per_unit) ==
    IF quantity <= 0 \/ price_per_unit <= 0 THEN 0
    ELSE 10 * MulDivRound(quantity, price_per_unit, 10)

\* the quotient cut off after 2 decimals instead of rounded
calculate_hpp_per_unit_floor(total_batch_cost, units) ==
    IF units <= 0 THEN 0
    ELSE 10 * (total_batch_cost \div (10 * units))

\* a count of units that is not positive taken as one unit
calculate_hpp_per_unit_one_unit(total_batch_cost, units) ==
    IF units <= 0 THEN total_batch_cost
    ELSE Round2(total_batch_cost, units)

calculate_hpp_per_unit(total_batch_cost, units) ==
    IF units <= 0 THEN 0
    ELSE Round2(total_batch_cost, units)

\* the margin amount returned without the cost it is added to
calculate_selling_price_margin_only(hpp_per_unit, target) ==
    IF hpp_per_unit <= 0 THEN 0
    ELSE 10 * MulDivRound(hpp_per_unit, target, 1000)

\* the formula of the docstring's first lines: HPP / (1 - margin%), the margin
\* taken on the selling price
calculate_selling_price_on_price(hpp_per_unit, target) ==
    IF hpp_per_unit <= 0 THEN 0
    ELSE 10 * RoundDiv(hpp_per_unit * 10000, 100000 - target)

calculate_selling_price(hpp_per_unit, target) ==
    IF hpp_per_unit <= 0 THEN 0
    ELSE 10 * MulDivRound(hpp_per_unit, 100000 + target, 1000)

calculate_margin_percent(hpp_per_unit, selling_price) ==
    IF selling_price <= 0 \/ hpp_per_unit <= 0 THEN 0
    ELSE 10 * RoundDiv((selling_price - hpp_per_unit) * 10000, selling_price)

\* the margin on the selling price in place of the markup on cost
calculate_margin_from_cost_on_price(hpp_per_unit, selling_price) ==
    calculate_margin_percent(hpp_per_unit, selling_price)

calculate_margin_from_cost(hpp_per_unit, selling_price) ==
    IF hpp_per_unit <= 0 THEN 0
    ELSE 10 * RoundDiv((selling_price - hpp_per_unit) * 10000, hpp_per_unit)

\* the share returned as a fraction of 1: the "* 100" left out
calculate_contribution_percent_fraction(line_cost, total_batch_cost) ==
    IF total_batch_cost <= 0 THEN 0
    ELSE 10 * RoundDiv(line_cost * 100, total_batch_cost)

\* the whole multiples of the total are taken out before the product is
\* formed, so that a line as large as the total stays within 32 bits
calculate_contribution_percent(line_cost, total_batch_cost) ==
    IF total_batch_cost <= 0 THEN 0
    ELSE 10 * ((line_cost \div total_batch_cost) * 10000
               + RoundDiv((line_cost % total_batch_cost) * 10000, total_batch_cost))

\* the first loop without the strip(): a row is skipped only when its name is ''
RECURSIVE FirstPass_nostrip(_)
FirstPass_nostrip(ings) ==
    IF ings = <<>> THEN [processed |-> <<>>, material_cost |-> 0]
    ELSE LET ing  == ings[Len(ings)]
             done == FirstPass_nostrip(SubSeq(ings, 1, Len(ings) - 1))
             line_cost == calculate_line_cost(ing.quantity, ing.price_per_unit)
         IN  IF ing.name = <<>> THEN done
             ELSE [processed |->
                      Append(done.processed,
                             [name |-> ing.name,
                              quantity |-> ing.quantity,
                              unit |-> ing.unit,
                              price_per_unit |-> ing.price_per_unit,
                              line_cost |-> line_cost,
                              contribution_percent |-> 0]),
                   material_cost |-> done.material_cost + line_cost]

\* first loop of calculate_all: the rows kept, with their line costs, and the
\* running material cost
RECURSIVE FirstPass(_)
FirstPass(ings) ==
    IF ings = <<>> THEN [processed |-> <<>>, material_cost |-> 0]
    ELSE LET ing  == ings[Len(ings)]
             done == FirstPass(SubSeq(ings, 1, Len(ings) - 1))
             name == Strip(ing.name)
             line_cost == calculate_line_cost(ing.quantity, ing.price_per_unit)
         IN  IF name = <<>> THEN done
             ELSE [processed |->
                      Append(done.processed,
                             [name |-> name,
                              quantity |-> ing.quantity,
                              unit |-> ing.unit,
                              price_per_unit |-> ing.price_per_unit,
                              line_cost |-> line_cost,
                              contribution_percent |-> 0]),
                   material_cost |-> done.material_cost + line_cost]

RECURSIVE material_of(_)
material_of(processed) ==
    IF processed = <<>> THEN 0
    ELSE processed[1].line_cost + material_of(Tail(processed))

\* the contributions taken against the material cost alone
SecondPass_material(processed, total_batch_cost) ==
    [i \in 1..Len(processed) |->
        [processed[i] EXCEPT !.contribution_percent =
            calculate_contribution_percent(processed[i].line_cost, material_of(processed))]]

\* second loop of calculate_all
SecondPass(processed, total_batch_cost) ==
    [i \in 1..Len(processed) |->
        [processed[i] EXCEPT !.contribution_percent =
            calculate_contribution_percent(processed[i].line_cost, total_batch_cost)]]

WarningBand == 5 * 1000

\* the warning band without its lower end
margin_status_of_exclusive(actual_margin, target) ==
    IF actual_margin >= target THEN "success"
    ELSE IF actual_margin > target - WarningBand THEN "warning"
    ELSE "danger"

margin_status_of(actual_margin, target) ==
    IF actual_margin >= target THEN "success"
    ELSE IF actual_margin >= target - WarningBand THEN "warning"
    ELSE "danger"

\* a price counts as supplied as soon as it is not 0
price_supplied_nonzero(actual_price) ==
    actual_price # None /\ actual_price[1] # 0

\* line 150: "if actual_selling_price and actual_selling_price > 0"
price_supplied(actual_price) ==
    actual_price # None /\ actual_price[1] # 0 /\ actual_price[1] > 0

\* without a price, the margin recomputed from the suggested price instead of
\* taken from the target
actual_margin_of_recomputed(hpp_per_unit, actual_price, target) ==
    calculate_margin_from_cost(
        hpp_per_unit,
        IF price_supplied(actual_price) THEN actual_price[1]
        ELSE calculate_selling_price(hpp_per_unit, target))

\* lines 150-154: the margin reported as the actual one
actual_margin_of(hpp_per_unit, actual_price, target) ==
    IF price_supplied(actual_price)
    THEN calculate_margin_from_cost(hpp_per_unit, actual_price[1])
    ELSE target

calculate_all(ings, units, target, actual_price, op_cost, oth_cost) ==
    LET first == FirstPass(ings)
        material_cost == first.material_cost
        total_batch_cost == material_cost + op_cost + oth_cost
        processed == SecondPass(first.processed, total_batch_cost)
        hpp_per_unit == calculate_hpp_per_unit(total_batch_cost, units)
        suggested == calculate_selling_price(hpp_per_unit, target)
        actual == IF price_supplied(actual_price) THEN actual_price[1] ELSE suggested
        actual_margin == actual_margin_of(hpp_per_unit, actual_price, target)
    IN  [ingredients |-> processed,
         material_cost |-> Round2(material_cost, 1),
         operational_cost |-> Round2(op_cost, 1),
         other_cost |-> Round2(oth_cost, 1),
         operational_contribution |->
             calculate_contribution_percent(op_cost, total_batch_cost),
         other_contribution |->
             calculate_contribution_percent(oth_cost, total_batch_cost),
         total_batch_cost |-> Round2(total_batch_cost, 1),
         output_units |-> units,
         target_margin_percent |-> target,
         hpp_per_unit |-> hpp_per_unit,
         suggested_selling_price |-> suggested,
         actual_selling_price |-> actual,
         actual_margin_percent |-> actual_margin,
         gap_vs_target |-> Round2(actual_margin - target, 1),
         margin_status |-> margin_status_of(actual_margin, target)]

-----------------------------------------------------------------------------
(* The specification: one call of calculate_all on any input of the domain *)

\* the data directory without a database file
NoDatabase ==
    [created |-> FALSE, settings |-> <<>>, calculations |-> <<>>,
     ingredients |-> <<>>, last_calculation_id |-> 0]

\* a call of the core from outside the application
AppNotRunning ==
    /\ session_state = None
    /\ button = FALSE
    /\ errors_shown = <<>>
    /\ calc_calls = 0

Init ==
    /\ ingredients \in SeqsUpTo(IngredientRows, MaxRows)
    /\ output_units \in OutputUnits
    /\ target_margin_percent \in TargetMargins
    /\ actual_selling_price \in ActualPrices
    /\ operational_cost \in OperationalCosts
    /\ other_cost \in OtherCosts
    /\ result = None
    /\ top_n = None
    /\ fn_args = <<>>
    /\ AppNotRunning
    /\ batch_cost = None
    /\ db = NoDatabase

\* the rows of the caller's list after a first loop that keeps the caller's
\* dicts: each named row has the name, the line cost and the contribution
\* written into it
RECURSIVE WrittenInPlace(_, _)
WrittenInPlace(ings, processed) ==
    IF ings = <<>> THEN <<>>
    ELSE IF Strip(ings[1].name) = <<>>
         THEN <<ings[1]>> \o WrittenInPlace(Tail(ings), processed)
         ELSE <<processed[1]>> \o WrittenInPlace(Tail(ings), Tail(processed))

\* calculate_all working on the caller's dicts
CalculateAll_in_place ==
    /\ result = None
    /\ LET r == calculate_all(ingredients, output_units, target_margin_percent,
                              actual_selling_price, operational_cost, other_cost)
       IN  /\ result' = Some(r)
           /\ ingredients' = WrittenInPlace(ingredients, r.ingredients)
    /\ UNCHANGED <<output_units, target_margin_percent,
                   actual_selling_price, operational_cost, other_cost,
                   top_n, fn_args, batch_cost, app_vars, db>>

CalculateAll ==
    /\ result = None
    /\ result' = Some(calculate_all(ingredients, output_units, target_margin_percent,
                                    actual_selling_price, operational_cost, other_cost))
    /\ UNCHANGED <<ingredients, output_units, target_margin_percent,
                   actual_selling_price, operational_cost, other_cost,
                   top_n, fn_args, batch_cost, app_vars, db>>

Next == CalculateAll

Spec == Init /\ [][Next]_vars

-----------------------------------------------------------------------------
(* The worked example of the formulas (10 kg at 40000, 50 units, 40 %) among   *)
(* single-line batches of the same size                                       *)

ScenarioQuantities == { 2500, 5000, 10000 }

ScenarioPrices == { 20000000, 40000000 }

ScenarioUnits == { 50, 100, 200 }

ScenarioTargets == { 0, 10000, 20000, 40000 }

InitScenario ==
    /\ ingredients \in
          { <<[name |-> <<"A">>, quantity |-> q, unit |-> <<"k", "g">>,
               price_per_unit |-> p]>> : q \in ScenarioQuantities, p \in ScenarioPrices }
    /\ output_units \in ScenarioUnits
    /\ target_margin_percent \in ScenarioTargets
    /\ actual_selling_price = None
    /\ operational_cost = 0
    /\ other_cost = 0
    /\ result = None
    /\ top_n = None
    /\ fn_args = <<>>
    /\ AppNotRunning
    /\ batch_cost = None
    /\ db = NoDatabase

SpecScenario == InitScenario /\ [][Next]_vars

-----------------------------------------------------------------------------
(* Vocabulary of the properties *)

Done == result # None

\* the record calculate_all returned
R == result[1]

Abs(x) == IF x < 0 THEN -x ELSE x

\* x is a whole number of hundredths
IsHundredths(x) == x % 10 = 0

RECURSIVE SumLineCosts(_)
SumLineCosts(rows) ==
    IF rows = <<>> THEN 0
    ELSE rows[1].line_cost + SumLineCosts(Tail(rows))

\* the batch total before the record's rounding: the line costs reported,
\* plus the operational and other cost passed in
BatchTotal == SumLineCosts(R.ingredients) + operational_cost + other_cost

\* a name with at least one character that is not white space
NonBlank(name) == \E k \in 1..Len(name) : ~IsSpace(name[k])

\* out is name with the white space at both ends removed
IsTrimOf(out, name) ==
    /\ out # <<>>
    /\ ~IsSpace(out[1])
    /\ ~IsSpace(out[Len(out)])
    /\ \E a \in 0..Len(name) :
          /\ a + Len(out) <= Len(name)
          /\ SubSeq(name, a + 1, a + Len(out)) = out
          /\ \A k \in (1..a) \cup ((a + Len(out) + 1)..Len(name)) : IsSpace(name[k])

\* row is the breakdown row of the input row ing
IsRowOf(row, ing) ==
    /\ DOMAIN row = { "name", "quantity", "unit", "price_per_unit",
                      "line_cost", "contribution_percent" }
    /\ IsTrimOf(row.name, ing.name)
    /\ row.quantity = ing.quantity
    /\ row.unit = ing.unit
    /\ row.price_per_unit = ing.price_per_unit

-----------------------------------------------------------------------------
(* C1 *)

\* C1: every line cost is quantity * price_per_unit rounded to 2 decimals
\* (a whole number of hundredths at most half a hundredth from the product)
\* when quantity > 0 and price_per_unit > 0, and is 0 when quantity <= 0 or
\* price_per_unit <= 0.
C1_LineCost ==
    Done =>
        \A i \in 1..Len(R.ingredients) :
            LET row == R.ingredients[i]
            IN  IF row.quantity > 0 /\ row.price_per_unit > 0
                THEN /\ IsHundredths(row.line_cost)
                     /\ Abs(1000 * row.line_cost - row.quantity * row.price_per_unit) <= 5000
                ELSE row.line_cost = 0

\* a result with a line whose product had to be rounded, and a line with a
\* non-positive factor
C1_Witness ==
    /\ Done
    /\ \E i, j \in 1..Len(R.ingredients) :
          /\ R.ingredients[i].quantity > 0
          /\ R.ingredients[i].price_per_unit > 0
          /\ 1000 * R.ingredients[i].line_cost
                # R.ingredients[i].quantity * R.ingredients[i].price_per_unit
          /\ R.ingredients[j].quantity > 0
          /\ R.ingredients[j].price_per_unit <= 0
          /\ R.ingredients[j].line_cost = 0

-----------------------------------------------------------------------------
(* C2 *)

\* C2: in every result, total_batch_cost equals material_cost +
\* operational_cost + other_cost exactly, all four as reported in the record.
C2_TotalIsSumOfReported ==
    Done => R.total_batch_cost = R.material_cost + R.operational_cost + R.other_cost

-----------------------------------------------------------------------------
(* C3 *)

\* C3 as stated: the breakdown holds exactly the input rows whose name is not
\* the empty string, in input order, and material_cost is the sum of their
\* line costs.
C3_NonEmptyNamesKept ==
    Done =>
        LET kept == SelectSeq(ingredients, LAMBDA ing : ing.name # <<>>)
        IN  /\ Len(R.ingredients) = Len(kept)
            /\ R.material_cost = SumLineCosts(R.ingredients)

\* C3, amended: the breakdown holds exactly the input rows whose name is not
\* empty after the white space around it is removed, in input order, each
\* with its (trimmed) name, quantity, unit and price and carrying line_cost
\* and contribution_percent; material_cost is the sum of their line costs;
\* the other rows contribute nothing and do not appear.
C3_NonBlankNamesKept ==
    Done =>
        LET kept == SelectSeq(ingredients, LAMBDA ing : NonBlank(ing.name))
        IN  /\ Len(R.ingredients) = Len(kept)
            /\ \A i \in 1..Len(kept) : IsRowOf(R.ingredients[i], kept[i])
            /\ R.material_cost = SumLineCosts(R.ingredients)

\* a blank-named row with a positive cost in front of a named row: only the
\* named row is in the breakdown and in the material cost
C3_Witness ==
    /\ Done
    /\ Len(ingredients) = 2
    /\ ingredients[1].name = <<" ">>
    /\ ingredients[1].quantity > 0 /\ ingredients[1].price_per_unit > 0
    /\ NonBlank(ingredients[2].name)
    /\ Len(R.ingredients) = 1
    /\ R.material_cost = R.ingredients[1].line_cost
    /\ R.material_cost > 0

-----------------------------------------------------------------------------
(* C4 *)

\* C4 as stated: hpp_per_unit is exactly total_batch_cost / output_units when
\* output_units > 0, and 0 when output_units <= 0.
C4_HppExactQuotient ==
    Done =>
        IF R.output_units > 0
        THEN R.hpp_per_unit * R.output_units = R.total_batch_cost
        ELSE R.hpp_per_unit = 0

\* C4, amended: when output_units > 0, hpp_per_unit is the batch total
\* (material + operational + other cost) divided by output_units and rounded
\* to 2 decimals: a whole number of hundredths at most half a hundredth from
\* the quotient; when output_units <= 0 it is 0.
C4_HppRoundedQuotient ==
    Done =>
        IF R.output_units > 0
        THEN /\ IsHundredths(R.hpp_per_unit)
             /\ Abs(R.hpp_per_unit * R.output_units - BatchTotal) <= 5 * R.output_units
        ELSE R.hpp_per_unit = 0

\* a positive batch total that output_units does not divide into hundredths
C4_Witness ==
    /\ Done
    /\ R.output_units = 3
    /\ BatchTotal > 0
    /\ R.hpp_per_unit > 0
    /\ R.hpp_per_unit * R.output_units # BatchTotal

-----------------------------------------------------------------------------
(* C5 *)

\* C5 as stated: suggested_selling_price is exactly
\* hpp + hpp * (target_margin_percent / 100) when hpp > 0, and 0 when
\* hpp <= 0.  (Both prices are whole hundredths; the equation is written in
\* hundredths.)
C5_PriceExactMarkup ==
    Done =>
        IF R.hpp_per_unit > 0
        THEN (R.suggested_selling_price \div 10) * 100000
                = (R.hpp_per_unit \div 10) * (100000 + R.target_margin_percent)
        ELSE R.suggested_selling_price = 0

\* C5, amended: when hpp > 0 the suggested selling price is the markup on
\* cost, hpp + hpp * (target_margin_percent / 100), rounded to 2 decimals;
\* when hpp <= 0 it is 0.  The percentage is applied to the cost.
C5_PriceRoundedMarkup ==
    Done =>
        IF R.hpp_per_unit > 0
        THEN /\ IsHundredths(R.hpp_per_unit)
             /\ IsHundredths(R.suggested_selling_price)
             /\ Abs((R.suggested_selling_price \div 10) * 100000
                     - (R.hpp_per_unit \div 10) * (100000 + R.target_margin_percent))
                  <= 50000
        ELSE R.suggested_selling_price = 0

\* a positive hpp whose marked-up price is not a whole number of hundredths
C5_Witness ==
    /\ Done
    /\ R.hpp_per_unit > 0
    /\ R.suggested_selling_price > R.hpp_per_unit
    /\ (R.suggested_selling_price \div 10) * 100000
          # (R.hpp_per_unit \div 10) * (100000 + R.target_margin_percent)

-----------------------------------------------------------------------------
(* C6 *)

\* an actual selling price was passed and is used as given
PriceGiven == actual_selling_price # None /\ actual_selling_price[1] > 0

-----------------------------------------------------------------------------
(* C7 *)

\* C7: when no actual selling price is passed, the record's
\* actual_selling_price is the suggested price, actual_margin_percent is the
\* target, gap_vs_target is 0 and margin_status is 'success'.
C7_NoPriceDefaults ==
    (Done /\ actual_selling_price = None) =>
        /\ R.actual_selling_price = R.suggested_selling_price
        /\ R.actual_margin_percent = target_margin_percent
        /\ R.gap_vs_target = 0
        /\ R.margin_status = "success"

\* no price passed, and a suggested price whose own markup over hpp is not
\* the target (hpp 0.01 at 40 %: the price rounds back to 0.01)
C7_Witness ==
    /\ Done
    /\ actual_selling_price = None
    /\ R.hpp_per_unit > 0
    /\ R.suggested_selling_price = R.hpp_per_unit
    /\ R.actual_margin_percent > 0

-----------------------------------------------------------------------------
(* C8 *)

\* C8: margin_status is 'success' exactly when the actual margin is at least
\* the target, 'warning' exactly when it is below the target but at least
\* target - 5 (target - 5 included), 'danger' exactly when it is below
\* target - 5; it is always one of the three.
C8_StatusClassification ==
    Done =>
        LET am == R.actual_margin_percent
            t  == R.target_margin_percent
        IN  /\ R.margin_status \in { "success", "warning", "danger" }
            /\ R.margin_status = "success" <=> am >= t
            /\ R.margin_status = "warning" <=> (t - 5000 <= am /\ am < t)
            /\ R.margin_status = "danger" <=> am < t - 5000

\* an actual margin of exactly target - 5, reported as a warning
C8_Witness ==
    /\ Done
    /\ R.actual_margin_percent = R.target_margin_percent - 5000
    /\ R.margin_status = "warning"

-----------------------------------------------------------------------------
(* C9 *)

\* C9: at target 40, a supplied price whose markup over hpp is 35 % gives
\* 'warning', one whose markup is 34.999 % gives 'danger', one whose markup
\* is 40 % gives 'success'.  (markup = m  iff  (price - hpp) * 100 = m * hpp.)
C9_BoundaryCases ==
    (Done /\ PriceGiven /\ R.hpp_per_unit > 0 /\ R.target_margin_percent = 40000) =>
        LET h == R.hpp_per_unit \div 10
            d == (actual_selling_price[1] - R.hpp_per_unit) * 10000
        IN  /\ d = 35000 * h => R.margin_status = "warning"
            /\ d = 34999 * h => R.margin_status = "danger"
            /\ d = 40000 * h => R.margin_status = "success"

-----------------------------------------------------------------------------
(* C10 *)

\* C10 as stated: every contribution_percent is exactly
\* line_cost / total_batch_cost * 100, against the final batch total, and 0
\* when that total is <= 0.
C10_ExactContribution ==
    Done =>
        \A i \in 1..Len(R.ingredients) :
            IF BatchTotal > 0
            THEN (R.ingredients[i].contribution_percent \div 10) * BatchTotal
                    = R.ingredients[i].line_cost * 10000
            ELSE R.ingredients[i].contribution_percent = 0

\* C10, amended: every contribution_percent is
\* line_cost / total_batch_cost * 100 rounded to 2 decimals, taken against the
\* final batch total (material + operational + other cost), and is 0 for
\* every ingredient when that total is <= 0.
C10_RoundedContribution ==
    Done =>
        \A i \in 1..Len(R.ingredients) :
            IF BatchTotal > 0
            THEN /\ IsHundredths(R.ingredients[i].contribution_percent)
                 /\ Abs((R.ingredients[i].contribution_percent \div 10) * BatchTotal
                         - R.ingredients[i].line_cost * 10000)
                      <= BatchTotal \div 2
            ELSE R.ingredients[i].contribution_percent = 0

\* a line with a cost, in a batch that also has operational cost, whose share
\* had to be rounded
C10_Witness ==
    /\ Done
    /\ operational_cost > 0
    /\ \E i \in 1..Len(R.ingredients) :
          /\ R.ingredients[i].line_cost > 0
          /\ R.ingredients[i].contribution_percent > 0
          /\ (R.ingredients[i].contribution_percent \div 10) * BatchTotal
                # R.ingredients[i].line_cost * 10000

-----------------------------------------------------------------------------
(* C11 *)

RECURSIVE SumContributions(_)
SumContributions(rows) ==
    IF rows = <<>> THEN 0
    ELSE rows[1].contribution_percent + SumContributions(Tail(rows))

\* C11: when the batch total is > 0, the contribution percentages of the
\* ingredients, together with operational_contribution and other_contribution
\* (both 0 when the whole cost comes from the ingredient lines), add up to 100
\* within 0.1 per ingredient row.
C11_ContributionsSumTo100 ==
    (Done /\ BatchTotal > 0) =>
        Abs(SumContributions(R.ingredients) + R.operational_contribution
              + R.other_contribution - 100000)
          <= 100 * Len(R.ingredients)

\* two lines with a cost, in a batch with operational cost, whose rounded
\* shares do not add up to exactly 100
C11_Witness ==
    /\ Done
    /\ BatchTotal > 0
    /\ Len(R.ingredients) = 2
    /\ R.ingredients[1].line_cost > 0
    /\ R.ingredients[2].line_cost > 0
    /\ SumContributions(R.ingredients) + R.operational_contribution
          + R.other_contribution # 100000

-----------------------------------------------------------------------------
(* C12 *)

\* the input of the worked example
IsScenario ==
    /\ Len(ingredients) = 1
    /\ ingredients[1].quantity = 10000
    /\ ingredients[1].price_per_unit = 40000000
    /\ operational_cost = 0
    /\ other_cost = 0
    /\ output_units = 50
    /\ target_margin_percent = 40000
    /\ actual_selling_price = None

\* C12: one line of 10 kg at 40000, no operational or other cost, 50 output
\* units and a target of 40 % give material_cost 400000, total_batch_cost
\* 400000, hpp_per_unit 8000 and suggested_selling_price 11200.
C12_Scenario ==
    (Done /\ IsScenario) =>
        /\ R.material_cost = 400000000
        /\ R.total_batch_cost = 400000000
        /\ R.hpp_per_unit = 8000000
        /\ R.suggested_selling_price = 11200000

\* the worked example, calculated
C12_Witness ==
    /\ Done
    /\ IsScenario
    /\ R.ingredients[1].line_cost = 400000000
    /\ R.ingredients[1].contribution_percent = 100000

-----------------------------------------------------------------------------
(* get_top_contributors: the model *)

\* dict.get(key, default): a row is a record that may lack a key
Get(ing, key, default) ==
    IF key \in DOMAIN ing THEN ing[key] ELSE default

\* the key of the sort: x.get('line_cost', 0)
line_cost_key(ing) == Get(ing, "line_cost", 0)

\* the comprehension's condition: the name is truthy and the line cost is > 0
is_valid_ingredient(ing) ==
    /\ Get(ing, "name", None) # <<>>
    /\ line_cost_key(ing) > 0

RECURSIVE valid_ingredients_of(_)
valid_ingredients_of(ings) ==
    IF ings = <<>> THEN <<>>
    ELSE IF is_valid_ingredient(ings[1])
         THEN <<ings[1]>> \o valid_ingredients_of(Tail(ings))
         ELSE valid_ingredients_of(Tail(ings))

\* x goes after every element whose key is not smaller than its own
RECURSIVE InsertDescending(_, _)
InsertDescending(s, x) ==
    IF s = <<>> THEN <<x>>
    ELSE IF line_cost_key(s[1]) >= line_cost_key(x)
         THEN <<s[1]>> \o InsertDescending(Tail(s), x)
         ELSE <<x>> \o s

\* a descending sort that puts a later element before its equals
RECURSIVE sorted_ingredients_of_unstable(_)
sorted_ingredients_of_unstable(ings) ==
    IF ings = <<>> THEN <<>>
    ELSE InsertDescending(sorted_ingredients_of_unstable(Tail(ings)), ings[1])

\* sorted(..., key=line_cost, reverse=True): descending, and stable
RECURSIVE sorted_ingredients_of(_)
sorted_ingredients_of(ings) ==
    IF ings = <<>> THEN <<>>
    ELSE InsertDescending(sorted_ingredients_of(SubSeq(ings, 1, Len(ings) - 1)),
                          ings[Len(ings)])

\* the slice s[:n]
SliceTo(s, n) ==
    IF n >= 0
    THEN SubSeq(s, 1, IF n < Len(s) THEN n ELSE Len(s))
    ELSE SubSeq(s, 1, Len(s) + n)

DefaultTopN == 3

\* n is None when the caller leaves top_n out
get_top_contributors(ings, n) ==
    SliceTo(sorted_ingredients_of(valid_ingredients_of(ings)),
            IF n = None THEN DefaultTopN ELSE n[1])

MaxTopRows == 3

TopNames == { <<>>, <<"A">>, <<"B">>, <<"C">> }

TopLineCosts == { 0, 100000, 200000, 500000 }

\* rows as calculate_all reports them, and a row without a line cost
TopRows ==
    [name : TopNames, line_cost : TopLineCosts] \cup { [name |-> <<"C">>] }

TopNs == { None, Some(0), Some(1), Some(2), Some(5) }

\* the arguments of calculate_all, in a state where it is not the function called
NoCalculateAllArgs ==
    /\ output_units = 0
    /\ target_margin_percent = 0
    /\ actual_selling_price = None
    /\ operational_cost = 0
    /\ other_cost = 0

InitTop ==
    /\ ingredients \in SeqsUpTo(TopRows, MaxTopRows)
    /\ top_n \in TopNs
    /\ NoCalculateAllArgs
    /\ result = None
    /\ fn_args = <<>>
    /\ AppNotRunning
    /\ batch_cost = None
    /\ db = NoDatabase

GetTopContributors ==
    /\ result = None
    /\ result' = Some(get_top_contributors(ingredients, top_n))
    /\ UNCHANGED <<ingredients, output_units, target_margin_percent,
                   actual_selling_price, operational_cost, other_cost,
                   top_n, fn_args, batch_cost, app_vars, db>>

NextTop == GetTopContributors

SpecTop == InitTop /\ [][NextTop]_vars

-----------------------------------------------------------------------------
(* C13 *)

\* the N of the call
TopN == IF top_n = None THEN 3 ELSE top_n[1]

\* the positions of the rows that have a name and a line cost > 0
Qualifying ==
    { i \in 1..Len(ingredients) :
        /\ "name" \in DOMAIN ingredients[i]
        /\ ingredients[i].name # <<>>
        /\ "line_cost" \in DOMAIN ingredients[i]
        /\ ingredients[i].line_cost > 0 }

\* row j comes before row i: a larger line cost, or the same and earlier
ComesBefore(j, i) ==
    \/ ingredients[j].line_cost > ingredients[i].line_cost
    \/ /\ ingredients[j].line_cost = ingredients[i].line_cost
       /\ j < i

PlaceOf(i) == 1 + Cardinality({ j \in Qualifying : ComesBefore(j, i) })

Example3 ==
    <<[name |-> <<"A">>, line_cost |-> 100000],
      [name |-> <<"B">>, line_cost |-> 500000],
      [name |-> <<"C">>, line_cost |-> 200000]>>

-----------------------------------------------------------------------------
(* validate_ingredients: the model *)

MaxNameLen == 100

\* f"Baris {row_num}: {text}"
RowError(row_num, text) == <<"Baris", row_num, text>>

NameTooLong == "Nama bahan terlalu panjang (max 100 karakter)"

QuantityNotPositive == "Kuantitas harus lebih dari 0"

PriceNotPositive == "Harga per unit harus lebih dari 0"

UnitMissing == "Satuan harus diisi"

NoValidIngredient == <<"Minimal harus ada 1 bahan yang valid">>

\* the name as read from the dict, spaces left on
row_name_nostrip(ing) == Get(ing, "name", <<>>)

\* ing.get('name', '').strip()
row_name(ing) == Strip(Get(ing, "name", <<>>))

\* ing.get(key) is None or ing.get(key) <= 0
none_or_not_positive(ing, key) ==
    IF key \in DOMAIN ing THEN ing[key] <= 0 ELSE TRUE

\* the checks of a named row that stop at the first rule it violates
check_row_fail_fast(ing, row_num) ==
    IF Len(row_name(ing)) > MaxNameLen
    THEN <<RowError(row_num, NameTooLong)>>
    ELSE IF none_or_not_positive(ing, "quantity")
    THEN <<RowError(row_num, QuantityNotPositive)>>
    ELSE IF none_or_not_positive(ing, "price_per_unit")
    THEN <<RowError(row_num, PriceNotPositive)>>
    ELSE IF Strip(Get(ing, "unit", <<>>)) = <<>>
    THEN <<RowError(row_num, UnitMissing)>>
    ELSE <<>>

\* the four checks of a named row, in the order of the code
check_row(ing, row_num) ==
    (IF Len(row_name(ing)) > MaxNameLen
     THEN <<RowError(row_num, NameTooLong)>> ELSE <<>>)
    \o (IF none_or_not_positive(ing, "quantity")
        THEN <<RowError(row_num, QuantityNotPositive)>> ELSE <<>>)
    \o (IF none_or_not_positive(ing, "price_per_unit")
        THEN <<RowError(row_num, PriceNotPositive)>> ELSE <<>>)
    \o (IF Strip(Get(ing, "unit", <<>>)) = <<>>
        THEN <<RowError(row_num, UnitMissing)>> ELSE <<>>)

\* the loop over enumerate(ingredients), from row i on, with the errors and
\* the flag has_valid_ingredient it has so far
RECURSIVE ValidateLoop(_, _, _, _)
ValidateLoop(ings, i, errors, has_valid_ingredient) ==
    IF i > Len(ings)
    THEN [errors |-> errors, has_valid_ingredient |-> has_valid_ingredient]
    ELSE IF row_name(ings[i]) = <<>>
         THEN ValidateLoop(ings, i + 1, errors, has_valid_ingredient)
         ELSE ValidateLoop(ings, i + 1, errors \o check_row(ings[i], i), TRUE)

\* a validation that never asks for an ingredient
final_errors_unchanged(errors, has_valid_ingredient) == errors

\* if not has_valid_ingredient: errors.append(...)
final_errors(errors, has_valid_ingredient) ==
    IF ~has_valid_ingredient THEN Append(errors, NoValidIngredient) ELSE errors

\* returns (is_valid, errors)
validate_ingredients(ings) ==
    LET loop   == ValidateLoop(ings, 1, <<>>, FALSE)
        errors == final_errors(loop.errors, loop.has_valid_ingredient)
    IN  <<Len(errors) = 0, errors>>

MaxValidateRows == 2

\* n times the character c
Repeat(c, n) == [i \in 1..n |-> c]

ValidateNames ==
    { <<>>, <<" ">>, <<"X">>,
      Append(Repeat("n", MaxNameLen), " "),
      Repeat("n", MaxNameLen + 1) }

ValidateQuantities == { 0, 1000 }

ValidatePrices == { -1000, 100000 }

ValidateUnits == { <<" ">>, <<"k", "g">> }

\* complete rows, a row that has only a name, and a row that has no name
ValidateRows ==
    [name : ValidateNames, quantity : ValidateQuantities,
     price_per_unit : ValidatePrices, unit : ValidateUnits]
    \cup { [name |-> <<"X">>],
           [quantity |-> 0, price_per_unit |-> 100000, unit |-> <<"k", "g">>] }

InitValidate ==
    /\ ingredients \in SeqsUpTo(ValidateRows, MaxValidateRows)
    /\ NoCalculateAllArgs
    /\ result = None
    /\ top_n = None
    /\ fn_args = <<>>
    /\ AppNotRunning
    /\ batch_cost = None
    /\ db = NoDatabase

ValidateIngredients ==
    /\ result = None
    /\ result' = Some(validate_ingredients(ingredients))
    /\ UNCHANGED <<ingredients, output_units, target_margin_percent,
                   actual_selling_price, operational_cost, other_cost,
                   top_n, fn_args, batch_cost, app_vars, db>>

NextValidate == ValidateIngredients

SpecValidate == InitValidate /\ [][NextValidate]_vars

-----------------------------------------------------------------------------
(* C14 *)

\* the returned pair
IsValid == R[1]

Errors == R[2]

\* error k is a message about row i
IsAbout(k, i) == Len(Errors[k]) = 3 /\ Errors[k][2] = i

HasError(i, text) ==
    \E k \in 1..Len(Errors) : Errors[k] = <<"Baris", i, text>>

\* the name of row i as given, and whether anything but spaces is in it
GivenName(i) ==
    IF "name" \in DOMAIN ingredients[i] THEN ingredients[i].name ELSE <<>>

IsNamed(i) == \E k \in 1..Len(GivenName(i)) : GivenName(i)[k] # " "

\* the length of the name of a named row without the spaces around it
TrimmedLen(i) ==
    LET n     == GivenName(i)
        first == CHOOSE k \in 1..Len(n) :
                     n[k] # " " /\ \A j \in 1..(k - 1) : n[j] = " "
        last  == CHOOSE k \in 1..Len(n) :
                     n[k] # " " /\ \A j \in (k + 1)..Len(n) : n[j] = " "
    IN  last - first + 1

BadNumber(i, key) ==
    key \in DOMAIN ingredients[i] => ingredients[i][key] <= 0

BadUnit(i) ==
    "unit" \in DOMAIN ingredients[i] =>
        \A k \in 1..Len(ingredients[i].unit) : ingredients[i].unit[k] = " "

ExampleRow ==
    [name |-> <<"X">>, quantity |-> 0, price_per_unit |-> 100000,
     unit |-> <<"k", "g">>]

\* C14 as stated: every row whose name is non-empty is checked against the
\* four rules (so a row with a non-empty name and a quantity of 0 gets the
\* quantity error), and a row with an empty name gets no error.
C14_NonEmptyNamesChecked ==
    Done =>
        \A i \in 1..Len(ingredients) :
            IF GivenName(i) # <<>>
            THEN BadNumber(i, "quantity") => HasError(i, QuantityNotPositive)
            ELSE \A k \in 1..Len(Errors) : ~IsAbout(k, i)

\* C14, amended: every row whose name, stripped of surrounding whitespace, is
\* non-empty is checked against the four rules (stripped name of at most 100
\* characters, quantity > 0, price_per_unit > 0, unit non-empty after
\* stripping) and gets the message of each rule it violates and of no other; a
\* row whose name is empty or only whitespace gets no message whatever its
\* quantity, price or unit; the row name "X", quantity 0, price 100, unit "kg"
\* alone yields exactly one error, about quantity.
C14_NonBlankNamesChecked ==
    Done =>
        /\ \A i \in 1..Len(ingredients) :
              IF IsNamed(i)
              THEN /\ HasError(i, NameTooLong) <=> TrimmedLen(i) > 100
                   /\ HasError(i, QuantityNotPositive) <=> BadNumber(i, "quantity")
                   /\ HasError(i, PriceNotPositive)
                        <=> BadNumber(i, "price_per_unit")
                   /\ HasError(i, UnitMissing) <=> BadUnit(i)
              ELSE \A k \in 1..Len(Errors) : ~IsAbout(k, i)
        /\ ingredients = <<ExampleRow>> =>
              Errors = <<<<"Baris", 1, QuantityNotPositive>>>>

\* a row named with a space only, with a quantity of 0, next to the example
\* row: the only message is the one about the example row's quantity
C14_Witness ==
    /\ Done
    /\ Len(ingredients) = 2
    /\ GivenName(1) = <<" ">>
    /\ ingredients[1].quantity = 0
    /\ ingredients[2] = ExampleRow
    /\ Errors = <<<<"Baris", 2, QuantityNotPositive>>>>

-----------------------------------------------------------------------------
(* C15 *)

\* the number of rules row i violates
Violations(i) ==
    (IF TrimmedLen(i) > 100 THEN 1 ELSE 0)
    + (IF BadNumber(i, "quantity") THEN 1 ELSE 0)
    + (IF BadNumber(i, "price_per_unit") THEN 1 ELSE 0)
    + (IF BadUnit(i) THEN 1 ELSE 0)

\* C15: the error list has, for every named row, as many messages tagged with
\* the row's 1-based position among all rows (blank ones counted) as the row
\* violates rules, and is_valid is true exactly when the list is empty.
C15_AllErrorsCollected ==
    Done =>
        /\ \A i \in 1..Len(ingredients) :
              IsNamed(i) =>
                  Cardinality({ k \in 1..Len(Errors) : IsAbout(k, i) })
                    = Violations(i)
        /\ IsValid <=> Errors = <<>>

\* a blank row, then a row that violates all four rules: four messages, all
\* tagged with row 2
C15_Witness ==
    /\ Done
    /\ Len(ingredients) = 2
    /\ ~IsNamed(1)
    /\ IsNamed(2)
    /\ Violations(2) = 4
    /\ Len(Errors) = 4
    /\ \A k \in 1..4 : IsAbout(k, 2)
    /\ ~IsValid

-----------------------------------------------------------------------------
(* C16 *)

HasNoValidIngredientError ==
    \E k \in 1..Len(Errors) : Errors[k] = NoValidIngredient

\* C16: the "at least one valid ingredient" error is reported exactly when no
\* row is left after the blank-named rows are skipped, and a list that is empty
\* or all blank yields that error and no other.
C16_AtLeastOneIngredient ==
    Done =>
        /\ HasNoValidIngredientError
              <=> (\A i \in 1..Len(ingredients) : ~IsNamed(i))
        /\ (\A i \in 1..Len(ingredients) : ~IsNamed(i)) =>
              Errors = <<NoValidIngredient>>

\* two blank-named rows, one of them with a quantity of 0: one error
C16_Witness ==
    /\ Done
    /\ Len(ingredients) = 2
    /\ ~IsNamed(1)
    /\ ~IsNamed(2)
    /\ ingredients[1].quantity = 0
    /\ Errors = <<NoValidIngredient>>
    /\ ~IsValid

-----------------------------------------------------------------------------
(* A direct call of one function of the core: fn_args is the name of the
   function followed by its arguments *)

GuardAmounts == { -1000, 0, 1000, 100000, 135000 }

BinaryFunctions ==
    { "calculate_hpp_per_unit", "calculate_selling_price",
      "calculate_margin_percent", "calculate_margin_from_cost",
      "calculate_contribution_percent" }

\* no ingredient, and one ingredient with a positive, a zero and a negative
\* line cost
GuardIngredientLists ==
    { <<>>,
      <<[name |-> <<"A">>, quantity |-> 1500, unit |-> <<"k", "g">>,
         price_per_unit |-> 2000]>>,
      <<[name |-> <<"A">>, quantity |-> 0, unit |-> <<"k", "g">>,
         price_per_unit |-> 2000]>>,
      <<[name |-> <<"A">>, quantity |-> 1500, unit |-> <<"k", "g">>,
         price_per_unit |-> -1000]>> }

GuardUnits == { -1, 0, 3 }

GuardActualPrices == { None, Some(135000) }

GuardOperationalCosts == { 0, 100000 }

InitGuards ==
    /\ \/ \E f \in BinaryFunctions :
            \E a \in GuardAmounts : \E b \in GuardAmounts :
                fn_args = <<f, a, b>>
       \/ \E ings \in GuardIngredientLists : \E units \in GuardUnits :
            \E price \in GuardActualPrices : \E op \in GuardOperationalCosts :
                fn_args = <<"calculate_all", ings, units, 40000, price, op, 0>>
    /\ ingredients = <<>>
    /\ NoCalculateAllArgs
    /\ result = None
    /\ top_n = None
    /\ AppNotRunning
    /\ batch_cost = None
    /\ db = NoDatabase

\* f(fn_args[2], fn_args[3]) for the function named in fn_args[1]
Returns(value) ==
    /\ result = None
    /\ result' = Some(value)
    /\ UNCHANGED <<ingredients, output_units, target_margin_percent,
                   actual_selling_price, operational_cost, other_cost,
                   top_n, fn_args, batch_cost, app_vars, db>>

CallHppPerUnit ==
    /\ fn_args[1] = "calculate_hpp_per_unit"
    /\ Returns(calculate_hpp_per_unit(fn_args[2], fn_args[3]))

CallSellingPrice ==
    /\ fn_args[1] = "calculate_selling_price"
    /\ Returns(calculate_selling_price(fn_args[2], fn_args[3]))

CallMarginPercent ==
    /\ fn_args[1] = "calculate_margin_percent"
    /\ Returns(calculate_margin_percent(fn_args[2], fn_args[3]))

CallMarginFromCost ==
    /\ fn_args[1] = "calculate_margin_from_cost"
    /\ Returns(calculate_margin_from_cost(fn_args[2], fn_args[3]))

CallContributionPercent ==
    /\ fn_args[1] = "calculate_contribution_percent"
    /\ Returns(calculate_contribution_percent(fn_args[2], fn_args[3]))

CallCalculateAll ==
    /\ fn_args[1] = "calculate_all"
    /\ Returns(calculate_all(fn_args[2], fn_args[3], fn_args[4], fn_args[5],
                             fn_args[6], fn_args[7]))

NextGuards ==
    \/ CallHppPerUnit
    \/ CallSellingPrice
    \/ CallMarginPercent
    \/ CallMarginFromCost
    \/ CallContributionPercent
    \/ CallCalculateAll

SpecGuards == InitGuards /\ [][NextGuards]_vars

-----------------------------------------------------------------------------
(* C18 *)

Called(f) == fn_args[1] = f

ResultFields ==
    { "ingredients", "material_cost", "operational_cost", "other_cost",
      "total_batch_cost", "output_units", "hpp_per_unit",
      "target_margin_percent", "suggested_selling_price",
      "actual_selling_price", "actual_margin_percent", "gap_vs_target",
      "margin_status", "operational_contribution", "other_contribution" }

\* C18: called with a non-positive denominator (output units, batch cost,
\* hpp, selling price) each of the five functions returns 0, and calculate_all
\* called with output_units <= 0, or with costs that give a total or an hpp
\* <= 0, returns a record with all its fields, in which the quotients that
\* have the non-positive denominator (hpp, suggested price, the margin of a
\* supplied price, the contributions) are 0.
C18_NonPositiveDenominators ==
    Done =>
        /\ (Called("calculate_hpp_per_unit") /\ fn_args[3] <= 0) => R = 0
        /\ (Called("calculate_selling_price") /\ fn_args[2] <= 0) => R = 0
        /\ (Called("calculate_margin_percent")
              /\ (fn_args[2] <= 0 \/ fn_args[3] <= 0)) => R = 0
        /\ (Called("calculate_margin_from_cost") /\ fn_args[2] <= 0) => R = 0
        /\ (Called("calculate_contribution_percent") /\ fn_args[3] <= 0) =>
              R = 0
        /\ Called("calculate_all") =>
              /\ DOMAIN R = ResultFields
              /\ fn_args[3] <= 0 => R.hpp_per_unit = 0
              /\ R.hpp_per_unit <= 0 =>
                    /\ R.suggested_selling_price = 0
                    /\ fn_args[5] # None => R.actual_margin_percent = 0
              /\ R.total_batch_cost <= 0 =>
                    /\ R.operational_contribution = 0
                    /\ R.other_contribution = 0
                    /\ \A i \in 1..Len(R.ingredients) :
                          R.ingredients[i].contribution_percent = 0

\* calculate_all called with 0 output units on a batch that has a cost, and
\* with an actual price: the record is there, with hpp, suggested price and
\* actual margin 0
C18_Witness ==
    /\ Done
    /\ Called("calculate_all")
    /\ fn_args[3] = 0
    /\ fn_args[5] # None
    /\ R.total_batch_cost > 0
    /\ R.hpp_per_unit = 0
    /\ R.suggested_selling_price = 0
    /\ R.actual_margin_percent = 0

-----------------------------------------------------------------------------
(* The application: the ingredient table, the inputs and the calculate button *)

MaxAppRows == 2

MaxCalcCalls == 2

\* the unit of a row whose Satuan cell is empty
DefaultUnit == <<"p", "c", "s">>

\* a row of the default table
BlankRow ==
    [Nama_Barang |-> <<>>, Qty_Bahan |-> 0, Satuan |-> <<"k", "g">>,
     Qty_Jumlah |-> 0, Harga |-> 0]

\* rows the editor can hold: Qty_Bahan and Harga in thousandths, Qty_Jumlah a
\* count, Satuan None for an empty cell
EditorRows ==
    { BlankRow,
      [Nama_Barang |-> <<"A">>, Qty_Bahan |-> 250000, Satuan |-> <<"k", "g">>,
       Qty_Jumlah |-> 2, Harga |-> 50000],
      [Nama_Barang |-> <<"B", " ">>, Qty_Bahan |-> 250000, Satuan |-> None,
       Qty_Jumlah |-> 0, Harga |-> 50000],
      [Nama_Barang |-> <<"A">>, Qty_Bahan |-> 0, Satuan |-> <<"k", "g">>,
       Qty_Jumlah |-> 2, Harga |-> 50000],
      [Nama_Barang |-> <<"A">>, Qty_Bahan |-> 250000, Satuan |-> <<"k", "g">>,
       Qty_Jumlah |-> 2, Harga |-> 0],
      [Nama_Barang |-> <<" ">>, Qty_Bahan |-> 250000, Satuan |-> <<"k", "g">>,
       Qty_Jumlah |-> 2, Harga |-> 50000] }

AppActualPrices == { 0, 8000 }

\* round(float(Qty_Jumlah or 0) * float(Harga or 0), 0)
subtotal_of(row) == 1000 * RoundDiv(row.Qty_Jumlah * row.Harga, 1000)

\* the subtotals as the bare product Qty_Jumlah x Harga
calculate_subtotals_unrounded(df) ==
    [i \in 1..Len(df) |->
        [Nama_Barang |-> df[i].Nama_Barang, Qty_Bahan |-> df[i].Qty_Bahan,
         Satuan |-> df[i].Satuan, Qty_Jumlah |-> df[i].Qty_Jumlah,
         Harga |-> df[i].Harga, Subtotal |-> df[i].Qty_Jumlah * df[i].Harga]]

calculate_subtotals(df) ==
    [i \in 1..Len(df) |->
        [Nama_Barang |-> df[i].Nama_Barang, Qty_Bahan |-> df[i].Qty_Bahan,
         Satuan |-> df[i].Satuan, Qty_Jumlah |-> df[i].Qty_Jumlah,
         Harga |-> df[i].Harga, Subtotal |-> subtotal_of(df[i])]]

\* the dict the handler appends for a row with a name
ingredient_of(row) ==
    LET qty_bahan   == row.Qty_Bahan
        qty_jumlah  == row.Qty_Jumlah
        harga       == row.Harga
        total_bahan == IF qty_jumlah > 0 THEN qty_bahan * qty_jumlah
                       ELSE qty_bahan
    IN  [name           |-> Strip(row.Nama_Barang),
         quantity       |-> total_bahan,
         unit           |-> IF row.Satuan = None THEN DefaultUnit
                            ELSE row.Satuan,
         price_per_unit |-> IF qty_bahan > 0
                            THEN (harga * 1000) \div qty_bahan
                            ELSE harga]

\* the loop over ingredients_df.iterrows()
RECURSIVE ingredients_from(_)
ingredients_from(df) ==
    IF df = <<>> THEN <<>>
    ELSE IF Strip(df[1].Nama_Barang) # <<>>
         THEN <<ingredient_of(df[1])>> \o ingredients_from(Tail(df))
         ELSE ingredients_from(Tail(df))

\* the calculate_all call of the handler
calculation_of(ss) ==
    calculate_all(ingredients_from(ss.ingredients_df), ss.output_units,
                  ss.target_margin,
                  IF ss.actual_price > 0 THEN Some(ss.actual_price) ELSE None,
                  ss.operational_cost, ss.other_cost)

\* a handler that calculates whatever the validation says
on_calculate_unchecked(ss) ==
    LET validation == validate_ingredients(ingredients_from(ss.ingredients_df))
    IN  [calculation_result |-> Some(calculation_of(ss)),
         errors     |-> validation[2],
         calculated |-> TRUE,
         rerun      |-> FALSE]

\* the body of "if st.button(...)": the stored result, the errors shown,
\* whether calculate_all was called and whether the script was run again
on_calculate(ss) ==
    LET validation == validate_ingredients(ingredients_from(ss.ingredients_df))
    IN  IF ~validation[1]
        THEN [calculation_result |-> ss.calculation_result,
              errors     |-> validation[2],
              calculated |-> FALSE,
              rerun      |-> FALSE]
        ELSE [calculation_result |-> Some(calculation_of(ss)),
              errors     |-> <<>>,
              calculated |-> TRUE,
              rerun      |-> TRUE]

\* init_session_state, the default table cut to MaxAppRows rows
InitApp ==
    /\ session_state =
          [ingredients_df     |-> calculate_subtotals(
                                      [i \in 1..MaxAppRows |-> BlankRow]),
           calculation_result |-> None,
           output_units       |-> 50,
           target_margin      |-> 40000,
           actual_price       |-> 0,
           operational_cost   |-> 0,
           other_cost         |-> 0]
    /\ button = FALSE
    /\ errors_shown = <<>>
    /\ calc_calls = 0
    /\ ingredients = <<>>
    /\ NoCalculateAllArgs
    /\ result = None
    /\ top_n = None
    /\ fn_args = <<>>
    /\ batch_cost = None
    /\ db = NoDatabase

\* s without its i-th element
RemoveAt(s, i) == SubSeq(s, 1, i - 1) \o SubSeq(s, i + 1, Len(s))

\* the end of the table editor's callback: the subtotals are calculated and
\* the table stored; the script runs again with the button not pressed
StoreTable(df) ==
    /\ session_state' =
          [session_state EXCEPT !.ingredients_df = calculate_subtotals(df)]
    /\ button' = FALSE
    /\ errors_shown' = <<>>
    /\ UNCHANGED <<calc_calls, core_vars, db>>

\* the callback on an edited row
EditRow ==
    \E i \in 1..Len(session_state.ingredients_df) : \E row \in EditorRows :
        StoreTable([session_state.ingredients_df EXCEPT ![i] = row])

\* the callback on an added row
AddRow ==
    /\ Len(session_state.ingredients_df) < MaxAppRows
    /\ \E row \in EditorRows :
          StoreTable(Append(session_state.ingredients_df, row))

\* the callback on a deleted row
DeleteRow ==
    \E i \in 1..Len(session_state.ingredients_df) :
        StoreTable(RemoveAt(session_state.ingredients_df, i))

\* the number input with key "actual_price"
SetActualPrice ==
    /\ \E price \in AppActualPrices :
          session_state' = [session_state EXCEPT !.actual_price = price]
    /\ button' = FALSE
    /\ errors_shown' = <<>>
    /\ UNCHANGED <<calc_calls, core_vars, db>>

\* a click on the calculate button
ClickCalculate ==
    /\ calc_calls < MaxCalcCalls
    /\ LET outcome == on_calculate(session_state)
       IN  /\ session_state' =
                 [session_state EXCEPT
                     !.calculation_result = outcome.calculation_result]
           /\ errors_shown' = outcome.errors
           /\ calc_calls' = IF outcome.calculated THEN calc_calls + 1
                            ELSE calc_calls
           /\ button' = ~outcome.rerun
    /\ UNCHANGED <<core_vars, db>>

NextApp ==
    \/ EditRow
    \/ AddRow
    \/ DeleteRow
    \/ SetActualPrice
    \/ ClickCalculate

SpecApp == InitApp /\ [][NextApp]_vars

-----------------------------------------------------------------------------
(* C19 *)

\* what validate_ingredients says of the table of the current state
TableValidation ==
    validate_ingredients(ingredients_from(session_state.ingredients_df))

\* C19: a step in which calculate_all is called, or the stored
\* calculation_result changes, starts from a table on which
\* validate_ingredients reports no error; a step that ends with the button
\* pressed is a click on a table with errors: it shows exactly the errors of
\* validate_ingredients, calls calculate_all no time and leaves the stored
\* calculation_result as it was.
C19_NoCalculationOnErrors ==
    [][ /\ (calc_calls' # calc_calls
              \/ session_state'.calculation_result
                   # session_state.calculation_result)
            => (TableValidation[1] /\ TableValidation[2] = <<>>)
        /\ button' =>
              /\ ~TableValidation[1]
              /\ errors_shown' = TableValidation[2]
              /\ errors_shown' # <<>>
              /\ calc_calls' = calc_calls
              /\ session_state'.calculation_result
                   = session_state.calculation_result
      ]_vars

\* after a calculation was stored the table was edited to one with an error
\* and the button pressed: the errors are on the page, the stored result is
\* still the only one calculated
C19_Witness ==
    /\ button
    /\ errors_shown # <<>>
    /\ calc_calls = 1
    /\ session_state.calculation_result # None
    /\ session_state.calculation_result[1].ingredients
          # ingredients_from(session_state.ingredients_df)

-----------------------------------------------------------------------------
(* Margins near the target: a batch of 100 with no ingredient line, targets
   with two and with three decimals, prices whose markup lies on and next to
   the target and the target - 5 *)

MarginUnits == { 1, 2, 3, 4 }

MarginTargets == { 0, 12340, 12344, 12346, 40000 }

MarginPrices ==
    { None, Some(-1000), Some(0), Some(46660), Some(50000), Some(100000),
      Some(107340), Some(107350), Some(112340), Some(112350), Some(140000) }

InitMargin ==
    /\ ingredients = <<>>
    /\ output_units \in MarginUnits
    /\ target_margin_percent \in MarginTargets
    /\ actual_selling_price \in MarginPrices
    /\ operational_cost = 100000
    /\ other_cost = 0
    /\ result = None
    /\ top_n = None
    /\ fn_args = <<>>
    /\ AppNotRunning
    /\ batch_cost = None
    /\ db = NoDatabase

SpecMargin == InitMargin /\ [][Next]_vars

-----------------------------------------------------------------------------
(* C20 *)

\* C20: in every result of calculate_all margin_status is 'success' exactly
\* when gap_vs_target >= 0, 'warning' exactly when -5 <= gap_vs_target < 0,
\* and 'danger' exactly when gap_vs_target < -5.
C20_GapAndStatusAgree ==
    Done =>
        /\ R.margin_status = "success" <=> R.gap_vs_target >= 0
        /\ R.margin_status = "warning"
              <=> (-5000 <= R.gap_vs_target /\ R.gap_vs_target < 0)
        /\ R.margin_status = "danger" <=> R.gap_vs_target < -5000

-----------------------------------------------------------------------------
(* Lists with small amounts: quantities and prices down to 0.004 and 0.002,
   beside rows that the validation refuses *)

SmallNames == { <<"A">>, <<" ">> }

SmallQuantities == { 0, 4, 1500 }

SmallPrices == { 2, 1000, 2000 }

SmallRows ==
    [name : SmallNames, quantity : SmallQuantities, unit : Units,
     price_per_unit : SmallPrices]

SmallUnits == { 1, 3 }

SmallTargets == { 0, 40000 }

SmallOperationalCosts == { 0, 4 }

InitSmall ==
    /\ ingredients \in SeqsUpTo(SmallRows, MaxRows)
    /\ output_units \in SmallUnits
    /\ target_margin_percent \in SmallTargets
    /\ actual_selling_price = None
    /\ operational_cost \in SmallOperationalCosts
    /\ other_cost = 0
    /\ result = None
    /\ top_n = None
    /\ fn_args = <<>>
    /\ AppNotRunning
    /\ batch_cost = None
    /\ db = NoDatabase

SpecSmall == InitSmall /\ [][Next]_vars

-----------------------------------------------------------------------------
(* C21 *)

\* validate_ingredients accepts the list of the call
Accepted == validate_ingredients(ingredients)[1]

\* C21: when validate_ingredients accepts the list, output_units >= 1 and
\* the costs and the target are >= 0, calculate_all returns every line_cost
\* > 0, total_batch_cost > 0, hpp_per_unit > 0 and suggested_selling_price
\* >= hpp_per_unit.
C21_AcceptedGivesPositive ==
    (Done /\ Accepted /\ output_units >= 1 /\ operational_cost >= 0
       /\ other_cost >= 0 /\ target_margin_percent >= 0) =>
        /\ \A i \in 1..Len(R.ingredients) : R.ingredients[i].line_cost > 0
        /\ R.total_batch_cost > 0
        /\ R.hpp_per_unit > 0
        /\ R.suggested_selling_price >= R.hpp_per_unit

-----------------------------------------------------------------------------
(* C22 *)

\* C22: with hpp_per_unit > 0, a call that supplies the suggested selling
\* price as the actual price returns what a call without a price returns:
\* actual_margin_percent equal to the target, gap_vs_target 0 and
\* margin_status 'success'.
C22_SuggestedPriceMeetsTarget ==
    (Done /\ PriceGiven /\ R.hpp_per_unit > 0
       /\ actual_selling_price[1] = R.suggested_selling_price) =>
        /\ R.actual_margin_percent = target_margin_percent
        /\ R.gap_vs_target = 0
        /\ R.margin_status = "success"

-----------------------------------------------------------------------------
(* C23 *)

\* C23: a call with an actual selling price of 0 or below returns what a
\* call without a price returns (actual_selling_price the suggested price,
\* actual_margin_percent the target, gap_vs_target 0); a price > 0 is
\* returned as given and, when hpp_per_unit > 0, is the price the margin is
\* taken from.
C23_NonPositivePriceIsOmitted ==
    (Done /\ actual_selling_price # None) =>
        IF actual_selling_price[1] <= 0
        THEN /\ R.actual_selling_price = R.suggested_selling_price
             /\ R.actual_margin_percent = target_margin_percent
             /\ R.gap_vs_target = 0
        ELSE /\ R.actual_selling_price = actual_selling_price[1]
             /\ R.hpp_per_unit > 0 =>
                   Abs((actual_selling_price[1] - R.hpp_per_unit) * 10000
                         - (R.actual_margin_percent \div 10) * R.hpp_per_unit)
                     <= R.hpp_per_unit \div 2

\* a price below 0 on a batch with a cost: the suggested price is returned
\* in its place
C23_Witness ==
    /\ Done
    /\ actual_selling_price # None
    /\ actual_selling_price[1] < 0
    /\ R.hpp_per_unit > 0
    /\ R.actual_selling_price = R.suggested_selling_price
    /\ R.actual_selling_price > 0
    /\ R.actual_margin_percent = target_margin_percent

-----------------------------------------------------------------------------
(* calculate_total_batch_cost, called on the list calculate_all is called on *)

\* the generator of the sum: rows with a truthy name, in order
RECURSIVE SumNamedLineCosts(_)
SumNamedLineCosts(ings) ==
    IF ings = <<>> THEN 0
    ELSE (IF Get(ings[1], "name", None) # <<>>
          THEN calculate_line_cost(Get(ings[1], "quantity", 0),
                                   Get(ings[1], "price_per_unit", 0))
          ELSE 0)
         + SumNamedLineCosts(Tail(ings))

calculate_total_batch_cost(ings) == Round2(SumNamedLineCosts(ings), 1)

InitBatch ==
    /\ ingredients \in SeqsUpTo(IngredientRows, MaxRows)
    /\ output_units = 1
    /\ target_margin_percent = 40000
    /\ actual_selling_price = None
    /\ operational_cost = 0
    /\ other_cost = 0
    /\ result = None
    /\ top_n = None
    /\ fn_args = <<>>
    /\ AppNotRunning
    /\ batch_cost = None
    /\ db = NoDatabase

CalculateTotalBatchCost ==
    /\ batch_cost = None
    /\ batch_cost' = Some(calculate_total_batch_cost(ingredients))
    /\ UNCHANGED <<ingredients, output_units, target_margin_percent,
                   actual_selling_price, operational_cost, other_cost,
                   result, top_n, fn_args, app_vars, db>>

NextBatch ==
    \/ CalculateAll
    \/ CalculateTotalBatchCost

SpecBatch == InitBatch /\ [][NextBatch]_vars

-----------------------------------------------------------------------------
(* C24 *)

\* C24: for every ingredient list, rows with a name of white space included,
\* calculate_total_batch_cost returns the material_cost that calculate_all
\* returns for the list.
C24_SameMaterialCost ==
    (Done /\ batch_cost # None) => batch_cost[1] = R.material_cost

-----------------------------------------------------------------------------
(* The three functions that take the ingredient list, each called on a list
   of rows as calculate_all returns them; fn_args names the function *)

FrameRows ==
    [name : { <<>>, <<"A", " ">>, <<" ">> }, quantity : Quantities,
     unit : Units,
     price_per_unit : { 2000 }, line_cost : { 0, 500000 },
     contribution_percent : { 0 }]

FrameFunctions ==
    { "calculate_all", "validate_ingredients", "get_top_contributors" }

InitFrame ==
    /\ ingredients \in SeqsUpTo(FrameRows, MaxRows)
    /\ \E f \in FrameFunctions : fn_args = <<f>>
    /\ output_units = 1
    /\ target_margin_percent = 40000
    /\ actual_selling_price = None
    /\ operational_cost = 0
    /\ other_cost = 0
    /\ result = None
    /\ top_n = None
    /\ AppNotRunning
    /\ batch_cost = None
    /\ db = NoDatabase

FrameCalculateAll ==
    /\ fn_args = <<"calculate_all">>
    /\ CalculateAll

FrameValidateIngredients ==
    /\ fn_args = <<"validate_ingredients">>
    /\ ValidateIngredients

FrameGetTopContributors ==
    /\ fn_args = <<"get_top_contributors">>
    /\ GetTopContributors

NextFrame ==
    \/ FrameCalculateAll
    \/ FrameValidateIngredients
    \/ FrameGetTopContributors

SpecFrame == InitFrame /\ [][NextFrame]_vars

-----------------------------------------------------------------------------
(* C25 *)

-----------------------------------------------------------------------------
(* C26 *)

IsNamedRow(row) == \E k \in 1..Len(row.Nama_Barang) : row.Nama_Barang[k] # " "

\* the rows of the table that have a name, in table order
NamedRows(df) == SelectSeq(df, IsNamedRow)

RECURSIVE SumSubtotals(_)
SumSubtotals(rows) ==
    IF rows = <<>> THEN 0 ELSE rows[1].Subtotal + SumSubtotals(Tail(rows))

\* C26: when the calculate action calculates, each named row of the table
\* enters the calculation with a line cost equal to the Subtotal the table
\* shows for it (Qty_Jumlah x Harga), whatever its Qty_Bahan, and
\* material_cost is the sum of the Subtotals of the named rows.
C26_LineCostIsSubtotal ==
    [][calc_calls' # calc_calls =>
          LET named  == NamedRows(session_state.ingredients_df)
              stored == session_state'.calculation_result[1]
          IN  /\ Len(stored.ingredients) = Len(named)
              /\ \A k \in 1..Len(named) :
                    stored.ingredients[k].line_cost = named[k].Subtotal
              /\ stored.material_cost = SumSubtotals(named)
      ]_vars

-----------------------------------------------------------------------------
(* on_ingredients_change: the callback of the table editor, run on the
   editor state st.session_state.ingredients_editor *)

Columns == { "Nama_Barang", "Qty_Bahan", "Satuan", "Qty_Jumlah", "Harga",
             "Subtotal" }

readonly_cols == { "Subtotal" }

\* df.at[row_idx, col] = val for every col of changes that is not read-only
apply_changes(row, changes) ==
    LET at(col) == IF col \in DOMAIN changes /\ col \notin readonly_cols
                   THEN changes[col] ELSE row[col]
    IN  [Nama_Barang |-> at("Nama_Barang"), Qty_Bahan |-> at("Qty_Bahan"),
         Satuan |-> at("Satuan"), Qty_Jumlah |-> at("Qty_Jumlah"),
         Harga |-> at("Harga"), Subtotal |-> at("Subtotal")]

\* the edited_rows of the editor state, applied one after the other
RECURSIVE apply_edited_rows(_, _)
apply_edited_rows(df, edited_rows) ==
    IF edited_rows = <<>> THEN df
    ELSE apply_edited_rows(
             [df EXCEPT ![edited_rows[1].row_idx + 1] =
                 apply_changes(df[edited_rows[1].row_idx + 1],
                               edited_rows[1].changes)],
             Tail(edited_rows))

\* the row appended for a new_row of the editor state
complete_row(new_row) ==
    [Nama_Barang |-> Get(new_row, "Nama_Barang", <<>>),
     Qty_Bahan   |-> Get(new_row, "Qty_Bahan", 0),
     Satuan      |-> Get(new_row, "Satuan", DefaultUnit),
     Qty_Jumlah  |-> Get(new_row, "Qty_Jumlah", 0),
     Harga       |-> Get(new_row, "Harga", 0),
     Subtotal    |-> 0]

RECURSIVE apply_added_rows(_, _)
apply_added_rows(df, added_rows) ==
    IF added_rows = <<>> THEN df
    ELSE apply_added_rows(Append(df, complete_row(added_rows[1])),
                          Tail(added_rows))

\* df.drop(index=deleted_rows).reset_index(drop=True)
drop_rows(df, deleted_rows) ==
    LET kept == { i \in 1..Len(df) :
                    \A k \in 1..Len(deleted_rows) : deleted_rows[k] + 1 # i }
    IN  SelectSeq([i \in 1..Len(df) |-> [index |-> i, row |-> df[i]]],
                  LAMBDA x : x.index \in kept)

rows_of(indexed) == [i \in 1..Len(indexed) |-> indexed[i].row]

on_ingredients_change(df, editor_state) ==
    calculate_subtotals(
        rows_of(drop_rows(
            apply_added_rows(apply_edited_rows(df, editor_state.edited_rows),
                             editor_state.added_rows),
            editor_state.deleted_rows)))

\* what one change in the editor can carry for a row
EditChanges ==
    { [Subtotal |-> 999000],
      [Harga |-> 1400, Subtotal |-> 999000],
      [Nama_Barang |-> <<"A">>, Qty_Jumlah |-> 2] }

NewRows ==
    { [Qty_Jumlah |-> 2, Harga |-> 1400],
      [Nama_Barang |-> <<"B">>, Satuan |-> <<"k", "g">>] }

\* editor states on a table of n rows: at most one edited row, one added row
\* and one deleted row
EditorStates(n) ==
    [edited_rows  : { <<>> } \cup { <<[row_idx |-> i, changes |-> c]>> :
                                      i \in 0..(n - 1), c \in EditChanges },
     added_rows   : { <<>> } \cup { <<r>> : r \in NewRows },
     deleted_rows : { <<>> } \cup { <<i>> : i \in 0..(n - 1) }]

\* init_session_state: no key "ingredients_editor" before the first change
InitEditor == InitApp

OnIngredientsChange ==
    /\ \E editor_state \in EditorStates(Len(session_state.ingredients_df)) :
          /\ Len(session_state.ingredients_df) + Len(editor_state.added_rows)
               - Len(editor_state.deleted_rows) <= MaxAppRows
          /\ session_state' =
                [ingredients_editor |-> editor_state,
                 ingredients_df     |->
                     on_ingredients_change(session_state.ingredients_df,
                                           editor_state),
                 calculation_result |-> session_state.calculation_result,
                 output_units       |-> session_state.output_units,
                 target_margin      |-> session_state.target_margin,
                 actual_price       |-> session_state.actual_price,
                 operational_cost   |-> session_state.operational_cost,
                 other_cost         |-> session_state.other_cost]
    /\ button' = FALSE
    /\ errors_shown' = <<>>
    /\ UNCHANGED <<calc_calls, core_vars, db>>

NextEditor == OnIngredientsChange

SpecEditor == InitEditor /\ [][NextEditor]_vars


EditorRan == "ingredients_editor" \in DOMAIN session_state

SubtotalIsRounded(row) ==
    /\ row.Subtotal % 1000 = 0
    /\ 2 * Abs(row.Subtotal - row.Qty_Jumlah * row.Harga) <= 1000

\* C27: after on_ingredients_change has processed an editor state (edited
\* rows, then added rows appended, then deleted rows dropped) every row of
\* ingredients_df has Subtotal = round(Qty_Jumlah x Harga); an edit aimed at
\* the Subtotal column is ignored (the other columns of the edited row take
\* the edited values, the untouched ones keep theirs), and an added row has
\* the given values and the defaults '' / 0 / 'pcs' for the missing columns.
C27_SubtotalsFollowTheEditor ==
    [][LET e    == session_state'.ingredients_editor
           old  == session_state.ingredients_df
           new  == session_state'.ingredients_df
           gone == { e.deleted_rows[k] + 1 : k \in 1..Len(e.deleted_rows) }
           \* position in new of the row at position i before the deletion
           at(i) == i - Cardinality({ j \in gone : j < i })
       IN  /\ \A i \in 1..Len(new) : SubtotalIsRounded(new[i])
           /\ Len(new) = Len(old) + Len(e.added_rows) - Cardinality(gone)
           /\ \A i \in (1..Len(old)) \ gone :
                \A col \in Columns \ { "Subtotal" } :
                   new[at(i)][col] =
                     IF \E k \in 1..Len(e.edited_rows) :
                           /\ e.edited_rows[k].row_idx + 1 = i
                           /\ col \in DOMAIN e.edited_rows[k].changes
                     THEN LET k == CHOOSE k \in 1..Len(e.edited_rows) :
                                     e.edited_rows[k].row_idx + 1 = i
                          IN  e.edited_rows[k].changes[col]
                     ELSE old[i][col]
           /\ \A k \in 1..Len(e.added_rows) :
                (Len(old) + k) \notin gone =>
                  LET row == new[at(Len(old) + k)]
                      given == e.added_rows[k]
                  IN  /\ row.Nama_Barang = IF "Nama_Barang" \in DOMAIN given
                                           THEN given.Nama_Barang ELSE <<>>
                      /\ row.Qty_Bahan = IF "Qty_Bahan" \in DOMAIN given
                                         THEN given.Qty_Bahan ELSE 0
                      /\ row.Satuan = IF "Satuan" \in DOMAIN given
                                      THEN given.Satuan ELSE <<"p", "c", "s">>
                      /\ row.Qty_Jumlah = IF "Qty_Jumlah" \in DOMAIN given
                                          THEN given.Qty_Jumlah ELSE 0
                      /\ row.Harga = IF "Harga" \in DOMAIN given
                                     THEN given.Harga ELSE 0
      ]_vars

\* an edit aimed at Subtotal and at Harga, an added row with missing columns
\* and a deleted row have been processed in one call
C27_Witness ==
    /\ EditorRan
    /\ LET e == session_state.ingredients_editor
       IN  /\ e.edited_rows # <<>>
           /\ "Subtotal" \in DOMAIN e.edited_rows[1].changes
           /\ "Harga" \in DOMAIN e.edited_rows[1].changes
           /\ e.added_rows # <<>>
           /\ e.deleted_rows # <<>>
           /\ e.deleted_rows[1] # e.edited_rows[1].row_idx
    /\ \E i \in 1..Len(session_state.ingredients_df) :
          session_state.ingredients_df[i].Subtotal > 0

-----------------------------------------------------------------------------
(* parse_import_file: the rows of an uploaded table, turned into ingredients
   and error messages.  A cell is what the table reader hands over: a number,
   a text, or NaN for an empty cell. *)

NaN == [kind |-> "nan"]

Number(x) == [kind |-> "number", value |-> x]

Text(s) == [kind |-> "text", text |-> s]

\* str(cell): the text as it is, "nan" for NaN
str(cell) == IF cell.kind = "nan" THEN <<"n", "a", "n">> ELSE cell.text

lower_char(c) ==
    CASE c = "A" -> "a" [] c = "B" -> "b" [] c = "N" -> "n" [] OTHER -> c

lower(s) == [i \in 1..Len(s) |-> lower_char(s[i])]

\* not text or text.lower() == 'nan'
empty_or_nan(text) == text = <<>> \/ lower(text) = <<"n", "a", "n">>

\* float(cell): ValueError for a text that is no number, NaN for NaN
float(cell) ==
    CASE cell.kind = "number" -> [raised |-> FALSE, nan |-> FALSE,
                                  value |-> cell.value]
      [] cell.kind = "nan"    -> [raised |-> FALSE, nan |-> TRUE, value |-> 0]
      [] OTHER                -> [raised |-> TRUE, nan |-> FALSE, value |-> 0]

\* int(f): truncation toward zero, ValueError for NaN
int(f) ==
    IF f.raised \/ f.nan
    THEN [raised |-> TRUE, nan |-> FALSE, value |-> 0]
    ELSE [raised |-> FALSE, nan |-> FALSE,
          value |-> IF f.value >= 0 THEN 1000 * (f.value \div 1000)
                    ELSE -(1000 * ((-f.value) \div 1000))]

\* number <= 0: every comparison with NaN is false
not_positive(f) == ~f.nan /\ f.value <= 0

\* the float kept in the ingredient: None stands for NaN
kept(f) == IF f.nan THEN None ELSE Some(f.value)

BarisError(row_num, message) == [row_num |-> row_num, message |-> message]

MsgQtyBahanPositive == "Qty Bahan harus > 0"

MsgQtyBahanInvalid == "Qty Bahan tidak valid"

MsgSatuanRequired == "Satuan harus diisi"

MsgQtyJumlahPositive == "Qty Jumlah harus > 0"

MsgQtyJumlahInvalid == "Qty Jumlah tidak valid"

MsgHargaPositive == "Harga harus > 0"

MsgHargaInvalid == "Harga tidak valid"

MsgNoValidData == "Tidak ada data valid ditemukan dalam file"

MsgMissingColumns == "Kolom tidak ditemukan"

\* one pass of the loop body: nothing, one error or one ingredient
parse_row(row, row_num) ==
    LET ingredient_name == Strip(str(row.nama_barang))
        qty_bahan  == float(row.qty_bahan)
        satuan     == Strip(str(row.satuan))
        qty_jumlah == int(float(row.qty_jumlah))
        harga      == float(row.harga)
        error(m)   == [kind |-> "error", error |-> BarisError(row_num, m)]
    IN  IF empty_or_nan(ingredient_name) THEN [kind |-> "skip"]
        ELSE IF qty_bahan.raised THEN error(MsgQtyBahanInvalid)
        ELSE IF not_positive(qty_bahan) THEN error(MsgQtyBahanPositive)
        ELSE IF empty_or_nan(satuan) THEN error(MsgSatuanRequired)
        ELSE IF qty_jumlah.raised THEN error(MsgQtyJumlahInvalid)
        ELSE IF not_positive(qty_jumlah) THEN error(MsgQtyJumlahPositive)
        ELSE IF harga.raised THEN error(MsgHargaInvalid)
        ELSE IF not_positive(harga) THEN error(MsgHargaPositive)
        ELSE [kind |-> "ingredient",
              ingredient |-> [nama_barang |-> ingredient_name,
                              qty_bahan   |-> kept(qty_bahan),
                              satuan      |-> satuan,
                              qty_jumlah  |-> qty_jumlah.value,
                              harga       |-> kept(harga)]]

\* the loop over df.iterrows(): <<ingredients, errors>> after the rows from
\* index idx on (idx counts from 0, the message names row idx + 2)
RECURSIVE parse_rows(_, _, _, _)
parse_rows(rows, idx, ingredients_so_far, errors_so_far) ==
    IF idx >= Len(rows) THEN <<ingredients_so_far, errors_so_far>>
    ELSE LET outcome == parse_row(rows[idx + 1], idx + 2)
         IN  parse_rows(rows, idx + 1,
                 IF outcome.kind = "ingredient"
                 THEN Append(ingredients_so_far, outcome.ingredient)
                 ELSE ingredients_so_far,
                 IF outcome.kind = "error"
                 THEN Append(errors_so_far, outcome.error)
                 ELSE errors_so_far)

required == <<"nama_barang", "qty_bahan", "satuan", "qty_jumlah", "harga">>

column_mapping ==
    [nama_barang |-> <<"nama_barang", "ingredient", "bahan", "nama",
                       "nama_bahan", "name">>,
     qty_bahan   |-> <<"qty_bahan", "qty_per_batch", "quantity", "qty",
                       "kuantitas">>,
     satuan      |-> <<"satuan", "unit", "uom">>,
     qty_jumlah  |-> <<"qty_jumlah", "jumlah", "jml", "amount", "qty_amount">>,
     harga       |-> <<"harga", "price", "price_per_unit", "harga_per_unit",
                       "harga_satuan">>]

\* the targets for which one of the alternatives is a column of the file
final_columns(columns) ==
    { target \in DOMAIN column_mapping :
        \E k \in 1..Len(column_mapping[target]) :
            column_mapping[target][k] \in columns }

missing(columns) ==
    SelectSeq(required, LAMBDA col : col \notin final_columns(columns))

parse_import_file(file) ==
    IF missing(file.columns) # <<>>
    THEN <<<<>>, <<[message |-> MsgMissingColumns,
                    columns |-> missing(file.columns)]>>>>
    ELSE LET parsed == parse_rows(file.rows, 0, <<>>, <<>>)
         IN  IF parsed[1] = <<>> /\ parsed[2] = <<>>
             THEN <<<<>>, <<[message |-> MsgNoValidData]>>>>
             ELSE parsed

MaxImportRows == 2

ImportRow(nama_barang, qty_bahan, satuan, qty_jumlah, harga) ==
    [nama_barang |-> nama_barang, qty_bahan |-> qty_bahan, satuan |-> satuan,
     qty_jumlah |-> qty_jumlah, harga |-> harga]

\* rows of an uploaded table: valid ones, and one or two cells that fail
ImportRows ==
    LET A  == Text(<<"A">>)
        kg == Text(<<"k", "g">>)
    IN  { ImportRow(A, Number(250000), kg, Number(2000), Number(50000)),
          ImportRow(Text(<<"B", " ">>), Number(1000000), Text(<<"p", "c", "s">>),
                    Number(2500), Number(1500)),
          ImportRow(Text(<<" ">>), Number(250000), kg, Number(2000),
                    Number(50000)),
          ImportRow(NaN, Number(0), kg, Number(2000), Number(50000)),
          ImportRow(Text(<<"N", "a", "n">>), Number(250000), kg, Number(2000),
                    Number(50000)),
          ImportRow(A, Number(0), Text(<<" ">>), Number(0), Number(0)),
          ImportRow(A, Text(<<"x">>), kg, Number(2000), Number(50000)),
          ImportRow(A, NaN, kg, Number(2000), Number(50000)),
          ImportRow(A, Number(250000), NaN, Number(0), Number(50000)),
          ImportRow(A, Number(250000), kg, Number(0), Number(0)),
          ImportRow(A, Number(250000), kg, Number(500), Number(50000)),
          ImportRow(A, Number(250000), kg, NaN, Number(50000)),
          ImportRow(A, Number(250000), kg, Number(2000), Number(-1000)),
          ImportRow(A, Number(250000), kg, Number(2000), Text(<<"x">>)),
          ImportRow(A, Number(250000), kg, Number(2000), NaN) }

\* the normalised column names of the file
ImportColumns ==
    { { "nama_barang", "qty_bahan", "satuan", "qty_jumlah", "harga" },
      { "name", "qty", "unit", "jumlah", "price", "catatan" },
      { "nama_barang", "qty_bahan", "qty_jumlah" },
      { "nama", "quantity", "uom", "jml" } }

ImportFiles ==
    [columns : ImportColumns, rows : SeqsUpTo(ImportRows, MaxImportRows)]

InitImport ==
    /\ \E file \in ImportFiles : fn_args = <<file>>
    /\ ingredients = <<>>
    /\ top_n = None
    /\ NoCalculateAllArgs
    /\ result = None
    /\ AppNotRunning
    /\ batch_cost = None
    /\ db = NoDatabase

ParseImportFile ==
    /\ result = None
    /\ result' = Some(parse_import_file(fn_args[1]))
    /\ UNCHANGED <<ingredients, output_units, target_margin_percent,
                   actual_selling_price, operational_cost, other_cost, top_n,
                   fn_args, batch_cost, app_vars, db>>

NextImport == ParseImportFile

SpecImport == InitImport /\ [][NextImport]_vars

\* the vocabulary of the claim about the import
IsNamedCell(cell) ==
    cell.kind = "text" /\ \E k \in 1..Len(cell.text) : cell.text[k] # " "

IsPositiveCell(cell) == cell.kind = "number" /\ cell.value > 0

\* 0 for a row that passes the four checks, else the number of the first
\* check it fails, in the order qty_bahan, satuan, qty_jumlah, harga
FirstFailingCheck(row) ==
    CASE ~IsPositiveCell(row.qty_bahan)  -> 1
      [] ~IsNamedCell(row.satuan)        -> 2
      [] ~IsPositiveCell(row.qty_jumlah) -> 3
      [] ~IsPositiveCell(row.harga)      -> 4
      [] OTHER                           -> 0

MessagesOfCheck(n) ==
    CASE n = 1 -> { MsgQtyBahanPositive, MsgQtyBahanInvalid }
      [] n = 2 -> { MsgSatuanRequired }
      [] n = 3 -> { MsgQtyJumlahPositive, MsgQtyJumlahInvalid }
      [] n = 4 -> { MsgHargaPositive, MsgHargaInvalid }

\* the positions, in file order, of the rows that satisfy P
Positions(rows, P(_)) ==
    SelectSeq([i \in 1..Len(rows) |-> i], LAMBDA i : P(rows[i]))

\* C28: parse_import_file treats each data row on its own: a blank-named row
\* yields nothing, a named row yields one ingredient when qty_bahan > 0,
\* satuan is not blank, qty_jumlah > 0 and harga > 0, and else one error for
\* the first failing check; valid rows come back in file order; a missing
\* required column gives no ingredient and one error; the 'no valid data'
\* error is there only when both lists would else be empty.
C28_RowsAreIndependent ==
    (Done /\ Len(fn_args) = 1 /\ "rows" \in DOMAIN fn_args[1]) =>
       LET file     == fn_args[1]
           rows     == file.rows
           found    == result[1][1]
           errors   == result[1][2]
           valid    == Positions(rows,
                          LAMBDA r : IsNamedCell(r.nama_barang)
                                       /\ FirstFailingCheck(r) = 0)
           failing  == Positions(rows,
                          LAMBDA r : IsNamedCell(r.nama_barang)
                                       /\ FirstFailingCheck(r) # 0)
       IN  IF missing(file.columns) # <<>>
           THEN found = <<>> /\ Len(errors) = 1
           ELSE /\ Len(found) = Len(valid)
                /\ \A k \in 1..Len(valid) :
                      found[k].nama_barang = Strip(rows[valid[k]].nama_barang.text)
                /\ IF valid = <<>> /\ failing = <<>>
                   THEN errors = <<[message |-> MsgNoValidData]>>
                   ELSE /\ Len(errors) = Len(failing)
                        /\ \A k \in 1..Len(failing) :
                              /\ errors[k].row_num = failing[k] + 1
                              /\ errors[k].message \in
                                   MessagesOfCheck(
                                       FirstFailingCheck(rows[failing[k]]))

-----------------------------------------------------------------------------
(* database/db.py: the settings table.  db.created says whether the tables
   exist; a row of settings is [key, value], kept in insertion order. *)

\* SELECT value FROM settings WHERE key = ? ... fetchone()
select_value(settings, key) ==
    SelectSeq(settings, LAMBDA row : row.key = key)

\* INSERT OR REPLACE: the row with the key goes, the new row is appended
insert_or_replace(settings, key, value) ==
    Append(SelectSeq(settings, LAMBDA row : row.key # key),
           [key |-> key, value |-> value])

\* an insert of a default that overwrites the row with the key
insert_overwriting(settings, key, value) ==
    Append(SelectSeq(settings, LAMBDA row : row.key # key),
           [key |-> key, value |-> value])

\* INSERT OR IGNORE: nothing happens when the key is there (key is UNIQUE)
insert_or_ignore(settings, key, value) ==
    IF select_value(settings, key) # <<>> THEN settings
    ELSE Append(settings, [key |-> key, value |-> value])

default_settings ==
    << <<"currency_symbol", "Rp">>, <<"default_margin", "40">>,
       <<"decimal_places", "0">>, <<"theme", "light">> >>

RECURSIVE insert_defaults(_, _)
insert_defaults(settings, defaults) ==
    IF defaults = <<>> THEN settings
    ELSE insert_defaults(
             insert_or_ignore(settings, defaults[1][1], defaults[1][2]),
             Tail(defaults))

\* CREATE TABLE IF NOT EXISTS ..., the default settings, commit
init_db(database) ==
    [database EXCEPT !.created = TRUE,
                     !.settings = insert_defaults(@, default_settings)]

Returned(value) == [raised |-> "", value |-> value]

Raised(exception) == [raised |-> exception, value |-> None]

\* sqlite3.OperationalError: no such table
NoSuchTable == "OperationalError"

get_setting(database, key, default) ==
    IF ~database.created THEN Raised(NoSuchTable)
    ELSE LET row == select_value(database.settings, key)
         IN  IF row # <<>> THEN Returned(Some(row[1].value))
             ELSE Returned(default)

\* the database after set_setting(key, value)
set_setting(database, key, value) ==
    IF ~database.created THEN database
    ELSE [database EXCEPT !.settings = insert_or_replace(@, key, value)]

SettingKeys == { "theme", "default_margin", "nama_usaha" }

SettingValues == { "dark", "35" }

SettingDefaults == { None, Some("D") }

NoCall ==
    /\ ingredients = <<>>
    /\ top_n = None
    /\ NoCalculateAllArgs
    /\ result = None
    /\ fn_args = <<>>
    /\ AppNotRunning
    /\ batch_cost = None

InitSettings == NoCall /\ db = NoDatabase

CallFrame ==
    UNCHANGED <<ingredients, output_units, target_margin_percent,
                actual_selling_price, operational_cost, other_cost, top_n,
                batch_cost, app_vars>>

InitDb ==
    /\ fn_args' = <<"init_db">>
    /\ db' = init_db(db)
    /\ result' = Some(Returned(Some(TRUE)))
    /\ CallFrame

GetSetting ==
    \E key \in SettingKeys, default \in SettingDefaults :
        /\ fn_args' = <<"get_setting", key, default>>
        /\ result' = Some(get_setting(db, key, default))
        /\ db' = db
        /\ CallFrame

SetSetting ==
    \E key \in SettingKeys, value \in SettingValues :
        /\ fn_args' = <<"set_setting", key, value>>
        /\ db' = set_setting(db, key, value)
        /\ result' = Some(IF db.created THEN Returned(None)
                          ELSE Raised(NoSuchTable))
        /\ CallFrame

NextSettings == InitDb \/ GetSetting \/ SetSetting

SpecSettings == InitSettings /\ [][NextSettings]_vars

\* the values the rows of the settings table hold for a key
ValuesOf(database, key) ==
    { database.settings[i].value :
        i \in { j \in 1..Len(database.settings) :
                  database.settings[j].key = key } }

AllSettingKeys ==
    SettingKeys \cup { default_settings[i][1] : i \in 1..Len(default_settings) }

NoTwoRowsWithOneKey(database) ==
    \A i, j \in 1..Len(database.settings) :
        database.settings[i].key = database.settings[j].key => i = j

\* what the claim says of one call, the database being database before it and
\* after after it
SettingsCallIsRight(database, after, call, outcome) ==
    /\ NoTwoRowsWithOneKey(after)
    /\ call[1] = "set_setting" =>
          /\ outcome.raised = ""
          /\ ValuesOf(after, call[2]) = { call[3] }
          /\ \A key \in AllSettingKeys \ { call[2] } :
                ValuesOf(after, key) = ValuesOf(database, key)
    /\ call[1] = "get_setting" =>
          /\ outcome.raised = ""
          /\ after = database
          /\ IF ValuesOf(database, call[2]) = {}
             THEN outcome.value = call[3]
             ELSE outcome.value # None
                    /\ ValuesOf(database, call[2]) = { outcome.value[1] }
    /\ call[1] = "init_db" =>
          /\ \A key \in AllSettingKeys :
                ValuesOf(database, key) # {} =>
                    ValuesOf(after, key) = ValuesOf(database, key)
          /\ ValuesOf(database, "currency_symbol") = {} =>
                ValuesOf(after, "currency_symbol") = { "Rp" }
          /\ ValuesOf(database, "default_margin") = {} =>
                ValuesOf(after, "default_margin") = { "40" }
          /\ ValuesOf(database, "decimal_places") = {} =>
                ValuesOf(after, "decimal_places") = { "0" }
          /\ ValuesOf(database, "theme") = {} =>
                ValuesOf(after, "theme") = { "light" }
          /\ ValuesOf(after, "nama_usaha") = ValuesOf(database, "nama_usaha")

\* C29 as stated: for any sequence of init_db, set_setting and get_setting
\* calls, get_setting(k) returns the value of the most recent
\* set_setting(k, v), else the default init_db inserted, else the caller's
\* default; init_db run again overwrites nothing; no two rows share a key.
C29_AnySequence ==
    [][SettingsCallIsRight(db, db', fn_args', result'[1])]_vars

\* C29, amended: the same for every call made once init_db has run (before
\* it there is no settings table and get_setting and set_setting raise).
C29_AfterInitDb ==
    [][(db.created \/ fn_args'[1] = "init_db") =>
          SettingsCallIsRight(db, db', fn_args', result'[1])]_vars

\* init_db has run again after a set_setting changed a default
C29_Witness ==
    /\ fn_args = <<"init_db">>
    /\ ValuesOf(db, "theme") = { "dark" }
    /\ ValuesOf(db, "nama_usaha") = { "35" }

-----------------------------------------------------------------------------
(* database/models.py: saved calculations.  A row of calculations is
   [id, name], a row of ingredients carries the calculation_id of its
   calculation; both tables are kept in insertion order. *)

MaxSaves == 2

MaxSavedRows == 2

ingredient_fields ==
    <<"name", "quantity", "unit", "price_per_unit", "line_cost",
      "contribution_percent">>

\* the first of ing['name'], ing['quantity'], ... that raises KeyError,
\* 0 when the record has them all
RECURSIVE first_missing(_, _)
first_missing(ing, k) ==
    IF k > Len(ingredient_fields) THEN 0
    ELSE IF ingredient_fields[k] \notin DOMAIN ing THEN k
    ELSE first_missing(ing, k + 1)

ingredient_row(calculation_id, ing) ==
    [calculation_id |-> calculation_id, name |-> ing.name,
     quantity |-> ing.quantity, unit |-> ing.unit,
     price_per_unit |-> ing.price_per_unit, line_cost |-> ing.line_cost,
     contribution_percent |-> ing.contribution_percent]

\* the loop of INSERT INTO ingredients on the open transaction: it stops at
\* the first record that raises
RECURSIVE insert_ingredients(_, _, _)
insert_ingredients(transaction, calculation_id, ings) ==
    IF ings = <<>> THEN [database |-> transaction, raised |-> ""]
    ELSE IF first_missing(ings[1], 1) # 0
         THEN [database |-> transaction, raised |-> "KeyError"]
    ELSE insert_ingredients(
             [transaction EXCEPT !.ingredients =
                 Append(@, ingredient_row(calculation_id, ings[1]))],
             calculation_id, Tail(ings))

\* a close that commits: what the transaction wrote so far stays
close_committing(committed, transaction) == transaction

\* get_connection's finally: conn.close() with no commit, so what the open
\* transaction wrote is rolled back
close_connection(committed, transaction) == committed

\* <<database after the call, outcome>>
save_calculation(database, name, ings) ==
    IF ~database.created THEN <<database, Raised(NoSuchTable)>>
    ELSE LET calculation_id == database.last_calculation_id + 1
             transaction ==
                 [database EXCEPT
                     !.calculations = Append(@, [id |-> calculation_id,
                                                 name |-> name]),
                     !.last_calculation_id = calculation_id]
             inserted == insert_ingredients(transaction, calculation_id, ings)
         IN  IF inserted.raised # ""
             THEN <<close_connection(database, inserted.database),
                    Raised(inserted.raised)>>
             ELSE <<inserted.database, Returned(Some(calculation_id))>>

get_calculation_by_id(database, calculation_id) ==
    IF ~database.created THEN Raised(NoSuchTable)
    ELSE LET calc_row == SelectSeq(database.calculations,
                                   LAMBDA row : row.id = calculation_id)
         IN  IF calc_row = <<>> THEN Returned(None)
             ELSE Returned(Some(
                      [id |-> calc_row[1].id, name |-> calc_row[1].name,
                       ingredients |->
                           SelectSeq(database.ingredients,
                               LAMBDA row :
                                   row.calculation_id = calculation_id)]))

\* <<database after the call, outcome>>
delete_calculation(database, calculation_id) ==
    IF ~database.created THEN <<database, Raised(NoSuchTable)>>
    ELSE << [database EXCEPT
                !.ingredients = SelectSeq(@, LAMBDA row :
                                    row.calculation_id # calculation_id),
                !.calculations = SelectSeq(@, LAMBDA row :
                                     row.id # calculation_id)],
            Returned(Some(\E i \in 1..Len(database.calculations) :
                             database.calculations[i].id = calculation_id)) >>

SavedIngredient(name) ==
    [name |-> name, quantity |-> 1500, unit |-> "kg",
     price_per_unit |-> 2000, line_cost |-> 3000,
     contribution_percent |-> 50000]

\* two complete records and one without line_cost and contribution_percent
SavedIngredients ==
    { SavedIngredient("A"), SavedIngredient("B"),
      [name |-> "X", quantity |-> 1500, unit |-> "kg",
       price_per_unit |-> 2000] }

CalculationNames == { "P" }

CalculationIds == 1..(MaxSaves + 1)

SaveCalculation ==
    /\ db.last_calculation_id < MaxSaves
    /\ \E name \in CalculationNames,
          ings \in SeqsUpTo(SavedIngredients, MaxSavedRows) :
            /\ fn_args' = <<"save_calculation", name, ings>>
            /\ db' = save_calculation(db, name, ings)[1]
            /\ result' = Some(save_calculation(db, name, ings)[2])
    /\ CallFrame

GetCalculationById ==
    /\ \E calculation_id \in CalculationIds :
          /\ fn_args' = <<"get_calculation_by_id", calculation_id>>
          /\ result' = Some(get_calculation_by_id(db, calculation_id))
    /\ db' = db
    /\ CallFrame

DeleteCalculation ==
    /\ \E calculation_id \in CalculationIds :
          /\ fn_args' = <<"delete_calculation", calculation_id>>
          /\ db' = delete_calculation(db, calculation_id)[1]
          /\ result' = Some(delete_calculation(db, calculation_id)[2])
    /\ CallFrame

NextCalculations ==
    InitDb \/ SaveCalculation \/ GetCalculationById \/ DeleteCalculation

SpecCalculations == InitSettings /\ [][NextCalculations]_vars

\* the rows of a table that belong to a calculation, and the others
RowsOf(table, calculation_id) ==
    SelectSeq(table, LAMBDA row : row.calculation_id = calculation_id)

RowsNotOf(table, calculation_id) ==
    SelectSeq(table, LAMBDA row : row.calculation_id # calculation_id)

IsComplete(ing) ==
    { "name", "quantity", "unit", "price_per_unit", "line_cost",
      "contribution_percent" } \subseteq DOMAIN ing

\* C30: save_calculation is all-or-nothing: when inserting an ingredient
\* fails (a record lacks a required field) neither the calculation row nor
\* any ingredient row is persisted; on success the calculation and all its
\* ingredients are stored under one new id; get_calculation_by_id(id) returns
\* the stored calculation with its ingredients; after delete_calculation(id)
\* neither the calculation nor an ingredient with that calculation_id is left.
C30_SaveIsAllOrNothing ==
    [][db.created =>
         LET call    == fn_args'
             outcome == result'[1]
         IN  /\ call[1] = "save_calculation" =>
                  IF \E k \in 1..Len(call[3]) : ~IsComplete(call[3][k])
                  THEN /\ outcome.raised # ""
                       /\ db'.calculations = db.calculations
                       /\ db'.ingredients = db.ingredients
                  ELSE /\ outcome.raised = "" /\ outcome.value # None
                       /\ LET id == outcome.value[1]
                          IN  /\ \A i \in 1..Len(db.calculations) :
                                    db.calculations[i].id # id
                              /\ RowsOf(db.ingredients, id) = <<>>
                              /\ db'.calculations =
                                    Append(db.calculations,
                                           [id |-> id, name |-> call[2]])
                              /\ RowsNotOf(db'.ingredients, id) = db.ingredients
                              /\ Len(RowsOf(db'.ingredients, id)) = Len(call[3])
                              /\ \A k \in 1..Len(call[3]) :
                                    \A f \in DOMAIN call[3][k] :
                                       RowsOf(db'.ingredients, id)[k][f]
                                          = call[3][k][f]
             /\ call[1] = "get_calculation_by_id" =>
                  /\ outcome.raised = ""
                  /\ db' = db
                  /\ IF \E i \in 1..Len(db.calculations) :
                           db.calculations[i].id = call[2]
                     THEN /\ outcome.value # None
                          /\ outcome.value[1].id = call[2]
                          /\ [id |-> call[2], name |-> outcome.value[1].name]
                                \in { db.calculations[i] :
                                        i \in 1..Len(db.calculations) }
                          /\ outcome.value[1].ingredients
                                = RowsOf(db.ingredients, call[2])
                     ELSE outcome.value = None
             /\ call[1] = "delete_calculation" =>
                  /\ \A i \in 1..Len(db'.calculations) :
                        db'.calculations[i].id # call[2]
                  /\ RowsOf(db'.ingredients, call[2]) = <<>>
                  /\ RowsNotOf(db'.ingredients, call[2])
                        = RowsNotOf(db.ingredients, call[2])
                  /\ db'.calculations =
                        SelectSeq(db.calculations,
                                  LAMBDA row : row.id # call[2])
      ]_vars

\* a save has failed on its second ingredient, after the calculation row and
\* the first ingredient were inserted, and an earlier calculation is stored
C30_Witness ==
    /\ Len(fn_args) = 3
    /\ fn_args[1] = "save_calculation"
    /\ Len(fn_args[3]) = 2
    /\ IsComplete(fn_args[3][1])
    /\ ~IsComplete(fn_args[3][2])
    /\ result[1].raised = "KeyError"
    /\ Len(db.calculations) = 1
    /\ Len(db.ingredients) = 2

====
